---------------------------- MODULE Spec2Model ----------------------------
(***************************************************************************)
(* Pipeline validator (schema.js), pipeline executor (pipeline.js), the    *)
(* import/export adapters (io.js) and the profile cache (profiles.js) of   *)
(* the image pipeline API, as state machines.                              *)
(*                                                                         *)
(* JavaScript values are modelled as strings: a JSON string is itself,     *)
(* and the values that are not strings are the bracketed literals below.   *)
(***************************************************************************)
EXTENDS Integers, Sequences, FiniteSets, TLC

\* ------------------------------------------------------------- JS values

Undef == "<undefined>"
Null == "<null>"
NumberVal == "<number>"

\* JavaScript truthiness of a field value: undefined, null and "" are falsy.
Truthy(v) == v \notin {Undef, Null, ""}

\* The empty sequence of error messages.
NoErrors == << >>

\* One error message: the template that produced it and what it interpolates.
\* step is the 0-based step index the message carries (-1: none).
Err(kind, step, field, value) ==
    [kind |-> kind, step |-> step, field |-> field, value |-> value]

\* --------------------------------------------------------------- schema.js

OpNames ==
    {"maskAlpha", "measure", "trimRepage", "padToAspect", "flatten",
     "resize", "colorspace", "format", "composite", "export"}

\* OPERATIONS[op].required, in the declared order.
OPERATIONS(op) ==
    CASE op = "maskAlpha"   -> <<"src", "mask", "out">>
      [] op = "measure"     -> <<"src", "out">>
      [] op = "trimRepage"  -> <<"src", "out">>
      [] op = "padToAspect" -> <<"src", "aspect", "padPct", "bg", "out">>
      [] op = "flatten"     -> <<"src", "bg", "out">>
      [] op = "resize"      -> <<"src", "mode", "value", "out">>
      [] op = "colorspace"  -> <<"src", "space", "out">>
      [] op = "format"      -> <<"src", "format", "out">>
      [] op = "composite"   -> <<"base", "overlay", "mode", "out">>
      [] op = "export"      -> <<"src">>

ResizeModes == {"width", "height", "percent", "fit"}
ColorSpaces == {"sRGB", "RGB", "CMYK", "Gray"}
FormatNames == {"tiff", "jpg", "jpeg", "png", "webp"}

INPUT_TYPES == {"url", "s3", "base64", "multipart"}

\* The input specs of the model: strings, objects with a type, and others.
UrlSpec == "https://h/a.png"
TypeNameSpec == "url"
BadStringSpec == "ftp://h/a.png"
ObjS3Spec == "<object type=s3>"
ObjBase64Spec == "<object type=base64>"
ObjUrlSpec == "<object type=url>"
ObjNoTypeSpec == "<object>"

\* typeof spec
TypeOfSpec(spec) ==
    CASE spec \in {UrlSpec, TypeNameSpec, BadStringSpec} -> "string"
      [] spec \in {ObjS3Spec, ObjBase64Spec, ObjUrlSpec, ObjNoTypeSpec, Null}
                                                         -> "object"
      [] OTHER                                           -> "number"

\* spec.startsWith('http://') || spec.startsWith('https://')
IsHttpUrl(spec) == spec = UrlSpec

\* spec.type of an object spec
SpecType(spec) ==
    CASE spec = ObjS3Spec     -> "s3"
      [] spec = ObjBase64Spec -> "base64"
      [] spec = ObjUrlSpec    -> "url"
      [] OTHER                -> Undef

\* step.aspect.split(':') for the aspect strings of the model.
SplitColon(s) ==
    CASE s = "3:4"   -> <<"3", "4">>
      [] s = "0:4"   -> <<"0", "4">>
      [] s = "1.5:2" -> <<"1.5", "2">>
      [] s = ":"     -> <<"", "">>
      [] s = "3:"    -> <<"3", "">>
      [] s = "1:2:3" -> <<"1", "2", "3">>
      [] OTHER       -> <<s>>

\* isNaN(part): Number("") is 0, so the empty string is not NaN.
IsNaN(part) == part \notin {"", "0", "1", "2", "3", "4", "1.5"}

\* A step is a record of this shape; js is what the array entry is.
NoStep ==
    [js |-> "object", op |-> Undef, src |-> Undef, mask |-> Undef,
     base |-> Undef, overlay |-> Undef, out |-> Undef, aspect |-> Undef,
     padPct |-> Undef, bg |-> Undef, mode |-> Undef, value |-> Undef,
     space |-> Undef, format |-> Undef, as |-> Undef]

\* step[field]: a property of null cannot be read, a primitive has none.
Field(step, f) == IF step.js = "object" THEN step[f] ELSE Undef

SrcFields == <<"src", "base", "overlay", "mask">>

\* Object.keys(pipeline.inputs || {})
InputKeys(doc) ==
    CASE doc.inputsKind = "object" ->
             {doc.inputs[k].name : k \in 1..Len(doc.inputs)}
      [] doc.inputsKind = "string" -> {"0"}
      [] OTHER                     -> {}

\* The error one entry of pipeline.inputs adds (schema.js 88-102).
InputErrors(entry) ==
    LET spec == entry.spec IN
    CASE TypeOfSpec(spec) = "string" ->
             IF ~IsHttpUrl(spec) /\ spec \notin INPUT_TYPES
             THEN <<Err("input-unknown-type", -1, entry.name, spec)>>
             ELSE NoErrors
      [] TypeOfSpec(spec) = "object" ->
             IF ~Truthy(SpecType(spec)) \/ SpecType(spec) \notin INPUT_TYPES
             THEN <<Err("input-invalid-type", -1, entry.name, spec)>>
             ELSE NoErrors
      [] OTHER -> <<Err("input-not-string-or-object", -1, entry.name, spec)>>

\* spec.type on a null spec raises a TypeError.
InputThrows(entry) == entry.spec = Null

RECURSIVE ValidateInputs(_, _, _)
ValidateInputs(inputs, k, errors) ==
    IF k > Len(inputs) THEN [threw |-> FALSE, errors |-> errors]
    ELSE IF InputThrows(inputs[k]) THEN [threw |-> TRUE, errors |-> errors]
    ELSE ValidateInputs(inputs, k + 1, errors \o InputErrors(inputs[k]))

\* Missing required fields of a step, in the order of opDef.required.
RECURSIVE MissingRequired(_, _, _, _)
MissingRequired(step, i, req, k) ==
    IF k > Len(req) THEN NoErrors
    ELSE (IF step[req[k]] = Undef
          THEN <<Err("missing-field", i, req[k], Undef)>>
          ELSE NoErrors) \o MissingRequired(step, i, req, k + 1)

\* The source-reference check: a falsy value is not looked up.
RefCheckApplies(v) == Truthy(v)

RECURSIVE UnknownRefs(_, _, _, _)
UnknownRefs(step, i, images, k) ==
    IF k > Len(SrcFields) THEN NoErrors
    ELSE (IF RefCheckApplies(step[SrcFields[k]])
             /\ step[SrcFields[k]] \notin images
          THEN <<Err("unknown-image", i, SrcFields[k], step[SrcFields[k]])>>
          ELSE NoErrors) \o UnknownRefs(step, i, images, k + 1)

\* The output is tracked only when step.out is truthy.
TracksOut(step) == Truthy(step.out)

OutConflict(step, i, images) ==
    IF TracksOut(step) /\ step.out \in images
    THEN <<Err("out-conflict", i, "out", step.out)>>
    ELSE NoErrors

EnumErrorsSkipResize(step, i) ==
    (IF step.op = "format" /\ step.format \notin FormatNames
     THEN <<Err("invalid-format", i, "format", step.format)>> ELSE NoErrors)
    \o
    (IF step.op = "colorspace" /\ step.space \notin ColorSpaces
     THEN <<Err("invalid-colorspace", i, "space", step.space)>> ELSE NoErrors)
EnumErrors(step, i) ==
    (IF step.op = "format" /\ step.format \notin FormatNames
     THEN <<Err("invalid-format", i, "format", step.format)>> ELSE NoErrors)
    \o
    (IF step.op = "colorspace" /\ step.space \notin ColorSpaces
     THEN <<Err("invalid-colorspace", i, "space", step.space)>> ELSE NoErrors)
    \o
    (IF step.op = "resize" /\ step.mode \notin ResizeModes
     THEN <<Err("invalid-resize-mode", i, "mode", step.mode)>> ELSE NoErrors)

\* step.aspect.split is not a function when aspect is a truthy non-string.
AspectThrows(step) == Truthy(step.aspect) /\ step.aspect = NumberVal

AspectErrors(step, i) ==
    IF Truthy(step.aspect) /\ ~AspectThrows(step)
    THEN LET parts == SplitColon(step.aspect) IN
         IF Len(parts) # 2 \/ IsNaN(parts[1]) \/ IsNaN(parts[2])
         THEN <<Err("invalid-aspect", i, "aspect", step.aspect)>>
         ELSE NoErrors
    ELSE NoErrors

\* One iteration of the step loop (schema.js 112-167) on a step object whose
\* op is known: the errors it pushes.
KnownStepErrors(step, i, images) ==
    MissingRequired(step, i, OPERATIONS(step.op), 1)
    \o UnknownRefs(step, i, images, 1)
    \o OutConflict(step, i, images)
    \o EnumErrors(step, i)
    \o AspectErrors(step, i)

\* Reading step.op of a null entry raises a TypeError.
StepThrows(step) ==
    \/ step.js = "null"
    \/ /\ step.js = "object"
       /\ Truthy(step.op)
       /\ step.op \in OpNames
       /\ AspectThrows(step)

StepErrors(step, i, images) ==
    IF ~Truthy(Field(step, "op")) THEN <<Err("missing-op", i, "op", Undef)>>
    ELSE IF step.op \notin OpNames
         THEN <<Err("unknown-op", i, "op", step.op)>>
    ELSE KnownStepErrors(step, i, images)

\* images after the iteration: the two `continue`s add nothing.
ImagesAfter(step, images) ==
    IF Truthy(Field(step, "op")) /\ step.op \in OpNames /\ TracksOut(step)
    THEN images \cup {step.out}
    ELSE images

\* The step loop from 1-based position k; messages carry the 0-based index.
RECURSIVE ValidateSteps(_, _, _, _)
ValidateSteps(steps, k, images, errors) ==
    IF k > Len(steps) THEN [threw |-> FALSE, errors |-> errors]
    ELSE IF StepThrows(steps[k]) THEN [threw |-> TRUE, errors |-> errors]
    ELSE ValidateSteps(steps, k + 1, ImagesAfter(steps[k], images),
                       errors \o StepErrors(steps[k], k - 1, images))

Returned(errors) ==
    [status |-> "returned", valid |-> (errors = NoErrors), errors |-> errors]
Threw(what) ==
    [status |-> "threw", valid |-> FALSE,
     errors |-> <<Err(what, -1, "", "")>>]

validatePipeline(doc) ==
    IF doc.js # "object"
    THEN Returned(<<Err("not-an-object", -1, "", "")>>)
    ELSE
      LET inp == IF doc.inputsKind # "object"
                 THEN [threw |-> FALSE,
                       errors |-> <<Err("no-inputs", -1, "inputs", "")>>]
                 ELSE ValidateInputs(doc.inputs, 1, NoErrors)
      IN
      IF inp.threw THEN Threw("TypeError")
      ELSE IF doc.stepsKind # "array"
           THEN Returned(inp.errors \o <<Err("no-steps", -1, "steps", "")>>)
      ELSE LET st == ValidateSteps(doc.steps, 1, InputKeys(doc), inp.errors)
           IN IF st.threw THEN Threw("TypeError") ELSE Returned(st.errors)


\* validateProfile (schema.js 174-184): profile.name of null raises.
validateProfile(doc) ==
    IF doc.js = "null" THEN Threw("TypeError")
    ELSE
      LET own == (IF ~Truthy(IF doc.js = "object" THEN doc.name ELSE Undef)
                  THEN <<Err("no-name", -1, "name", "")>> ELSE NoErrors)
                 \o
                 (IF doc.js # "object" \/ doc.stepsKind = "undefined"
                  THEN <<Err("no-steps-field", -1, "steps", "")>>
                  ELSE NoErrors)
          pv == validatePipeline(doc)
      IN IF pv.status = "threw" THEN pv ELSE Returned(own \o pv.errors)

\* ------------------------------------------------------------- documents

MaxSteps == 2

Entry(n, spec) == [name |-> n, spec |-> spec]

\* A pipeline document: js is typeof-like ("object", "null", "string").
Doc(name, inputs, steps) ==
    [js |-> "object", name |-> name, inputsKind |-> "object",
     inputs |-> inputs, stepsKind |-> "array", steps |-> steps]

\* Documents that are not of the {inputs: {...}, steps: [...]} shape.
MisshapenDocs ==
    { [Doc(Undef, << >>, << >>) EXCEPT !.js = j] : j \in {"null", "string"} }
    \cup { [Doc(Undef, << >>, << >>) EXCEPT !.inputsKind = k] :
             k \in {"undefined", "string"} }
    \cup { [Doc(Undef, <<Entry("a", UrlSpec)>>, << >>)
              EXCEPT !.stepsKind = "undefined"] }

\* The inputs mappings the validator is tried on, in insertion order.
ValInputs ==
    { << >>,
      <<Entry("a", UrlSpec)>>,
      <<Entry("a", UrlSpec), Entry("b", TypeNameSpec)>>,
      <<Entry("", UrlSpec)>>,
      <<Entry("a", ObjS3Spec)>>,
      <<Entry("a", BadStringSpec), Entry("b", ObjNoTypeSpec)>>,
      <<Entry("a", NumberVal)>>,
      <<Entry("a", Null)>> }

Step(op, src, out) == [NoStep EXCEPT !.op = op, !.src = src, !.out = out]

\* The steps the validator is tried on.
ValSteps ==
    { Step("trimRepage", s, t) :
        s \in {Undef, "", "a", "x", "q"}, t \in {Undef, "", "x", "a"} }
    \cup { Step(o, s, "x") : o \in {"bogus", Undef}, s \in {"a", "q"} }
    \cup { [Step("composite", Undef, "y")
              EXCEPT !.base = b, !.overlay = v, !.mode = "Over"] :
             b \in {"a", "q"}, v \in {"a", "x"} }
    \cup { [Step("maskAlpha", "a", "x") EXCEPT !.mask = m] :
             m \in {"b", "", "x"} }
    \cup { [Step("trimRepage", "a", "y") EXCEPT !.mask = "q"] }
    \cup { Step("export", s, Undef) : s \in {"x", "q", ""} }
    \cup { Step("measure", "a", "m") }
    \cup { [Step("padToAspect", "a", "x")
              EXCEPT !.aspect = r, !.padPct = "0.06", !.bg = "white"] :
             r \in {"3:4", "0:4", ":", "1.5:2", "abc", "1:2:3", NumberVal} }
    \cup { [Step("format", "a", "x") EXCEPT !.format = f] :
             f \in {"jpg", "gif"} }
    \cup { [Step("colorspace", "a", "x") EXCEPT !.space = c] :
             c \in {"sRGB", "HSL"} }
    \cup { [Step("resize", "a", "x") EXCEPT !.mode = m, !.value = "800"] :
             m \in {"width", "crop"} }
    \cup { [NoStep EXCEPT !.js = j] : j \in {"null", "number"} }

\* All sequences over S of length at most n.
RECURSIVE SeqsUpTo(_, _)
SeqsUpTo(S, n) ==
    IF n = 0 THEN { << >> }
    ELSE LET shorter == SeqsUpTo(S, n - 1)
         IN shorter \cup { Append(q, x) : q \in shorter, x \in S }

\* The steps a document carries after its second one.
LaterSteps ==
    { Step("trimRepage", "a", "x"), Step("measure", "a", "m"),
      [Step("format", "x", "y") EXCEPT !.format = "gif"],
      [Step("resize", "a", "x") EXCEPT !.mode = "crop", !.value = "800"] }

\* The steps arrays the validator is tried on: every array of at most two
\* steps, and the two-step arrays continued by later steps.
ValStepArrays ==
    LET short == IF MaxSteps < 2 THEN MaxSteps ELSE 2
        heads == SeqsUpTo(ValSteps, short)
    IN heads
       \cup { h \o t : h \in { q \in heads : Len(q) = 2 },
                       t \in SeqsUpTo(LaterSteps, MaxSteps - short)
                                \ { << >> } }

ValDocs ==
    MisshapenDocs
    \cup { Doc(Undef, inp, st) : inp \in ValInputs, st \in ValStepArrays }

\* ----------------------------------------------------------- operations.js

\* A transient file path: what names it (kind, Date.now() stamp, random
\* suffix, step index, extension).  NoPath is Map.get's undefined.
Path(kind, ts, rnd, idx, ext) ==
    [kind |-> kind, ts |-> ts, rnd |-> rnd, idx |-> idx, ext |-> ext]
NoPath == Path("none", 0, 0, -1, "")

\* images.get(name)
Get(images, name) == IF name \in DOMAIN images THEN images[name] ELSE NoPath

\* images.set(name, path)
Set(images, name, path) ==
    [n \in (DOMAIN images) \cup {name} |->
        IF n = name THEN path ELSE images[n]]

\* The symbols a builder looks up, in the order of the descriptor's inputs.
BuilderRefs(step) ==
    CASE step.op = "maskAlpha" -> <<"src", "mask">>
      [] step.op = "composite" -> <<"base", "overlay">>
      [] OTHER                 -> <<"src">>

\* Number(part) is 0 or NaN, which `!w || !h` refuses.
AspectPartIsZero(part) == part \in {"", "0"} \/ IsNaN(part)

\* What makes a builder throw (operations.js 12-222).
BuildThrows(step, images) ==
    \/ step.op \notin (OpNames \ {"export"})
    \/ \E k \in 1..Len(BuilderRefs(step)) :
          Get(images, step[BuilderRefs(step)[k]]) = NoPath
    \/ /\ step.op = "padToAspect"
       /\ LET parts == SplitColon(step.aspect)
          IN \/ AspectPartIsZero(parts[1])
             \/ Len(parts) < 2
             \/ AspectPartIsZero(parts[2])
    \/ step.op = "resize" /\ step.mode \notin ResizeModes

\* The error a builder throws, or kind "none" (operations.js 12-222): the
\* message of a missing symbol names the builder, its source fields and the
\* values they hold.
BuildErr(kind, op, fields, symbols) ==
    [kind |-> kind, op |-> op, fields |-> fields, symbols |-> symbols]

BuildFailureFirstRef(step, images) ==
    IF step.op \notin (OpNames \ {"export"})
    THEN BuildErr("unknown-operation", step.op, << >>, << >>)
    ELSE IF Get(images, step[BuilderRefs(step)[1]]) = NoPath
    THEN BuildErr("missing", step.op, BuilderRefs(step),
                  [k \in 1..Len(BuilderRefs(step)) |->
                      step[BuilderRefs(step)[k]]])
    ELSE IF BuildThrows(step, images)
    THEN BuildErr(IF step.op = "resize" THEN "unknown-resize-mode"
                  ELSE "invalid-aspect", step.op, << >>, << >>)
    ELSE BuildErr("none", step.op, << >>, << >>)
BuildFailure(step, images) ==
    IF step.op \notin (OpNames \ {"export"})
    THEN BuildErr("unknown-operation", step.op, << >>, << >>)
    ELSE IF \E k \in 1..Len(BuilderRefs(step)) :
               Get(images, step[BuilderRefs(step)[k]]) = NoPath
    THEN BuildErr("missing", step.op, BuilderRefs(step),
                  [k \in 1..Len(BuilderRefs(step)) |->
                      step[BuilderRefs(step)[k]]])
    ELSE IF BuildThrows(step, images)
    THEN BuildErr(IF step.op = "resize" THEN "unknown-resize-mode"
                  ELSE "invalid-aspect", step.op, << >>, << >>)
    ELSE BuildErr("none", step.op, << >>, << >>)

\* The descriptor's args for the fields a step of the model has; the optional
\* compress, gravity, filter, quality, density and geometry are absent.
BuilderArgs(step) ==
    CASE step.op = "maskAlpha" ->
           <<"-compose", "CopyOpacity", "-composite", "-alpha", "set",
             "-compress", "lzw">>
      [] step.op = "trimRepage" -> <<"-trim", "+repage">>
      [] step.op = "padToAspect" ->
           <<"-set", "option:trimW", "%[w]", "-set", "option:trimH", "%[h]",
             "-set", "option:padW", <<"%[fx:trimW/padFactor]", step.padPct>>,
             "-set", "option:padH", <<"%[fx:trimH/padFactor]", step.padPct>>,
             "-set", "option:targetW",
             <<"%[fx:max(padW,padH*aspectRatio)]", step.aspect>>,
             "-set", "option:targetH",
             <<"%[fx:targetW/aspectRatio]", step.aspect>>,
             "-background", IF Truthy(step.bg) THEN step.bg ELSE "white",
             "-gravity", "center", "-extent", "%[targetW]x%[targetH]">>
      [] step.op = "flatten" ->
           <<"-background", IF Truthy(step.bg) THEN step.bg ELSE "white",
             "-flatten">>
      [] step.op = "resize" -> <<"-resize", <<step.mode, step.value>> >>
      [] step.op = "colorspace" -> <<"-colorspace", step.space>>
      [] step.op = "composite" -> <<"-compose", step.mode, "-composite">>
      [] OTHER -> << >>

\* What a builder leaves in the objects it was handed: it writes to none.
ArgumentsAfterStoresDefault(step, images, vars) ==
    [step |-> IF step.op = "flatten" /\ ~Truthy(step.bg)
              THEN [step EXCEPT !.bg = "white"] ELSE step,
     images |-> images, vars |-> vars]
ArgumentsAfter(step, images, vars) ==
    [step |-> step, images |-> images, vars |-> vars]

\* buildOperation(step, images, vars): the descriptor's inputs and format.
buildOperation(step, images) ==
    [inputs |-> [k \in 1..Len(BuilderRefs(step)) |->
                    Get(images, step[BuilderRefs(step)[k]])],
     outputFormat |-> IF step.op = "format" THEN step.format ELSE Undef]

\* -------------------------------------------------------------------- io.js

\* The specs importImage resolves (io.js 24, 42, 75); the rest is
\* 'Unsupported import spec'.
ImportSupported(spec) == spec \in {UrlSpec, ObjS3Spec, ObjBase64Spec}

\* The extension importImage keeps from the source name.
ImportExt(spec) ==
    CASE spec = UrlSpec   -> ".png"
      [] spec = ObjS3Spec -> ".arw"
      [] OTHER            -> ""

\* -------------------------------------------------------------- pipeline.js

MaxRunSteps == 3
NRand == 2

RunIds == {1, 2}
RandVals == 1..NRand
Outcomes == {"ok", "fail", "fail-partial"}

\* What the engine's identify reports (width, height).
Dims == {<<"1000", "800">>}
TrimDims == {<<"900", "700">>}

VarNames == {"runId", "base", "w", "h", "trimW", "trimH"}
ParamSets == { [v \in VarNames |-> IF v = "runId" THEN "r7" ELSE Undef] }

\* The inputs mappings and the steps runs are tried on.
ExecInputs ==
    { << >>,
      <<Entry("a", UrlSpec)>>,
      <<Entry("a", UrlSpec), Entry("b", ObjS3Spec)>>,
      <<Entry("a", UrlSpec), Entry("b", TypeNameSpec)>>,
      <<Entry("a", Null)>> }

ExecSteps ==
    { Step("trimRepage", "a", "x"), Step("trimRepage", "x", "y"),
      Step("trimRepage", "a", ""), Step("trimRepage", "m", "y"),
      Step("measure", "a", "m"),
      [Step("maskAlpha", "a", "x") EXCEPT !.mask = "b"],
      [Step("export", "x", Undef) EXCEPT !.as = "jpg"],
      Step("export", "a", Undef),
      [Step("padToAspect", "x", "y")
         EXCEPT !.aspect = "3:4", !.padPct = "0.06", !.bg = "white"],
      [Step("padToAspect", "a", "y")
         EXCEPT !.aspect = "0:4", !.padPct = "0.06", !.bg = "white"],
      [Step("format", "a", "x") EXCEPT !.format = "jpg"],
      Step("bogus", "a", "y"),
      [NoStep EXCEPT !.js = "null"] }

ExecDocs ==
    { Doc(Undef, inp, st) :
        inp \in ExecInputs, st \in SeqsUpTo(ExecSteps, MaxRunSteps) }

NoResult ==
    [status |-> "none", message |-> "", errors |-> NoErrors,
     stepsExecuted |-> 0, imagesProcessed |-> 0]

Ev(ev, step, what) == [ev |-> ev, step |-> step, what |-> what]

\* A run that has not been started.
IdleRun ==
    [pc |-> "idle", doc |-> Doc(Undef, << >>, << >>),
     vars |-> [v \in VarNames |-> Undef], images |-> << >>,
     cleanups |-> << >>, released |-> << >>, k |-> 0, i |-> -1,
     tmp |-> NoPath, src |-> NoPath, dims |-> <<"", "">>,
     outputs |-> << >>, realized |-> << >>, result |-> NoResult,
     log |-> << >>]

\* A transformer's value: the run after it, and the files on storage.
After(st, F) == [run |-> st, files |-> F]

Logged(st, e) == [st EXCEPT !.log = Append(@, e)]

\* cleanups.push(() => unlink(path))
Register(st, path) ==
    [st EXCEPT !.cleanups = Append(@, path), !.released = Append(@, 0)]

\* The finally block (pipeline.js 174-179): every cleanup runs, in order, and
\* then the result or the error reaches the caller.
FinallySkipsOnError(st, F, res) ==
    IF res.status = "threw"
    THEN After([st EXCEPT !.pc = res.status, !.result = res], F)
    ELSE After([st EXCEPT !.pc = res.status, !.result = res,
                          !.released = [c \in DOMAIN @ |-> @[c] + 1]],
               F \ {st.cleanups[c] : c \in DOMAIN st.cleanups})
Finally(st, F, res) ==
    After([st EXCEPT !.pc = res.status, !.result = res,
                     !.released = [c \in DOMAIN @ |-> @[c] + 1]],
          F \ {st.cleanups[c] : c \in DOMAIN st.cleanups})

\* A throw inside the try block: the rest of the run is abandoned.
ThrowRetries(st, F, message) ==
    After(Logged(st, Ev("fail", st.i, message)), F)
Throw(st, F, message) ==
    Finally(Logged(st, Ev("fail", st.i, message)), F,
            [NoResult EXCEPT !.status = "threw", !.message = message])

\* The return statement (pipeline.js 164-172).
ReturnCountsRealized(st, F) ==
    Finally(st, F,
            [NoResult EXCEPT !.status = "returned",
                             !.stepsExecuted = Len(st.doc.steps),
                             !.imagesProcessed = Len(st.realized)])
Return(st, F) ==
    Finally(st, F,
            [NoResult EXCEPT !.status = "returned",
                             !.stepsExecuted = Len(st.doc.steps),
                             !.imagesProcessed = Cardinality(DOMAIN st.images)])

\* The for loop's i++ (taken by `continue` too).
NextIndexSkips(st) == st.i + 2
NextIndex(st) == st.i + 1

\* The loop from its test at index st.i up to the first await of that step
\* (pipeline.js 46-60, 98-103, 131-145), or to the return.
EnterStep(st, F, now) ==
    IF st.i >= Len(st.doc.steps) THEN Return(st, F)
    ELSE
      LET step == st.doc.steps[st.i + 1]
          st1 == Logged(st, Ev("begin", st.i, step.op))
      IN
      IF step.op \in {"export", "measure"}
      THEN LET srcPath == Get(st.images, step.src) IN
           IF srcPath = NoPath THEN Throw(st1, F, "missing src")
           ELSE IF step.op = "measure"
           THEN After(Logged([st1 EXCEPT !.pc = "identify", !.src = srcPath],
                             Ev("invoke", st.i, "identify")), F)
           ELSE IF Truthy(step.as)
           THEN After(Logged([st1 EXCEPT
                                !.pc = "encode", !.src = srcPath,
                                !.tmp = Path("export", now, 0, st.i, step.as)],
                             Ev("invoke", st.i, "encode")), F)
           ELSE After(Logged([st1 EXCEPT !.pc = "export", !.src = srcPath],
                             Ev("call", st.i, "exportImage")), F)
      ELSE IF BuildThrows(step, st.images)
      THEN Throw(st1, F, BuildFailure(step, st.images).kind)
      ELSE LET built == buildOperation(step, st.images) IN
           After(Logged([st1 EXCEPT
                           !.pc = "invoke",
                           !.tmp = Path("step", now, 0, st.i,
                                        built.outputFormat)],
                        Ev("invoke", st.i, "op")), F)

\* importImage up to its await (io.js 19-33): the path is named, or the spec
\* is refused.
BeginImport(st, F, now, rnd) ==
    LET spec == st.doc.inputs[st.k].spec IN
    IF ~ImportSupported(spec) THEN Throw(st, F, "Unsupported import spec")
    ELSE After([st EXCEPT !.pc = "import",
                          !.tmp = Path("import", now, rnd, -1,
                                       ImportExt(spec))], F)

\* The inputs loop from entry st.k on (pipeline.js 38-43), then the steps.
EnterInputs(st, F, now, rnd) ==
    IF st.k > Len(st.doc.inputs) THEN EnterStep([st EXCEPT !.i = 0], F, now)
    ELSE BeginImport(st, F, now, rnd)

\* executePipeline up to its first await (pipeline.js 21-39).
StartRun(doc, params, F, now, rnd) ==
    LET v == validatePipeline(doc) IN
    IF v.status = "threw"
    THEN After([IdleRun EXCEPT
                  !.pc = "threw", !.doc = doc,
                  !.result = [NoResult EXCEPT !.status = "threw",
                                              !.message = "TypeError"]], F)
    ELSE IF ~v.valid
    THEN After([IdleRun EXCEPT
                  !.pc = "threw", !.doc = doc,
                  !.result = [NoResult EXCEPT !.status = "threw",
                                              !.message = "Invalid pipeline",
                                              !.errors = v.errors]], F)
    ELSE EnterInputs([IdleRun EXCEPT !.doc = doc, !.vars = params, !.k = 1],
                     F, now, rnd)

\* importImage settles (io.js 33-38) and the inputs loop goes on
\* (pipeline.js 40-42).
ImportSettledGoesOn(st, F, now, outcome, rnd) ==
    IF outcome # "ok"
    THEN EnterInputs(Logged([st EXCEPT !.k = @ + 1],
                            Ev("fail", st.i, "import failed")),
                     F, now, rnd)
    ELSE LET name == st.doc.inputs[st.k].name
             st1 == Register([st EXCEPT
                                !.images = Set(@, name, st.tmp),
                                !.realized = Append(@, Ev("import", -1, name)),
                                !.k = @ + 1],
                             st.tmp)
         IN EnterInputs(Logged(st1, Ev("imported", -1, name)),
                        F \cup {st.tmp}, now, rnd)
ImportSettled(st, F, now, outcome, rnd) ==
    IF outcome # "ok" THEN Throw(st, F, "import failed")
    ELSE LET name == st.doc.inputs[st.k].name
             st1 == Register([st EXCEPT
                                !.images = Set(@, name, st.tmp),
                                !.realized = Append(@, Ev("import", -1, name)),
                                !.k = @ + 1],
                             st.tmp)
         IN EnterInputs(Logged(st1, Ev("imported", -1, name)),
                        F \cup {st.tmp}, now, rnd)

\* The engine wrote (all or part of) its output file, or nothing.
Written(F, path, outcome) ==
    IF outcome \in {"ok", "fail-partial"} THEN F \cup {path} ELSE F

\* The export step's re-encode settles (pipeline.js 79-84).
EncodeSettled(st, F, outcome) ==
    IF outcome # "ok"
    THEN Throw(st, Written(F, st.tmp, outcome), "engine failed")
    ELSE After(Logged(Logged(Register([st EXCEPT !.pc = "export",
                                                 !.src = st.tmp], st.tmp),
                             Ev("invoked", st.i, "encode")),
                      Ev("call", st.i, "exportImage")),
               Written(F, st.tmp, outcome))

\* exportImage settles (pipeline.js 84-94).
ExportSettledKeepsNothing(st, F, now, outcome) ==
    IF outcome # "ok" THEN Throw(st, F, "export failed")
    ELSE EnterStep(
           Logged(Logged([st EXCEPT
                            !.realized = Append(@, Ev("export", st.i, "")),
                            !.i = NextIndex(st)],
                         Ev("output", st.i, "")),
                  Ev("end", st.i, "export")),
           F, now)
ExportSettled(st, F, now, outcome) ==
    IF outcome # "ok" THEN Throw(st, F, "export failed")
    ELSE EnterStep(
           Logged(Logged([st EXCEPT
                            !.outputs = Append(@, [step |-> st.i,
                                                   path |-> st.src]),
                            !.realized = Append(@, Ev("export", st.i, "")),
                            !.i = NextIndex(st)],
                         Ev("output", st.i, "")),
                  Ev("end", st.i, "export")),
           F, now)

\* measure: the first identify settles (pipeline.js 103-108).
IdentifySettled(st, F, now, outcome, d) ==
    IF outcome # "ok" THEN Throw(st, F, "engine failed")
    ELSE After(Logged(Logged([st EXCEPT
                                !.pc = "trim", !.dims = d,
                                !.tmp = Path("trim", now, 0, st.i, "")],
                             Ev("invoked", st.i, "identify")),
                      Ev("invoke", st.i, "trim")), F)

\* measure: the trim settles (pipeline.js 108-109).
TrimSettled(st, F, outcome) ==
    IF outcome # "ok"
    THEN Throw(st, Written(F, st.tmp, outcome), "engine failed")
    ELSE After(Logged(Logged([st EXCEPT !.pc = "identifyTrim"],
                             Ev("invoked", st.i, "trim")),
                      Ev("invoke", st.i, "identifyTrim")),
               Written(F, st.tmp, outcome))

\* measure: the second identify settles (pipeline.js 109-128).
IdentifyTrimSettledBindsOut(st, F, now, outcome, d) ==
    IF outcome # "ok" THEN Throw(st, F, "engine failed")
    ELSE EnterStep(
           Logged(Logged(Logged(
             [st EXCEPT
                !.vars = [v \in VarNames |->
                            CASE v = "w"     -> st.dims[1]
                              [] v = "h"     -> st.dims[2]
                              [] v = "trimW" -> d[1]
                              [] v = "trimH" -> d[2]
                              [] OTHER       -> @[v]],
                !.images = Set(@, st.doc.steps[st.i + 1].out, st.src),
                !.realized = Append(@, Ev("measure", st.i, "")),
                !.i = NextIndex(st)],
             Ev("invoked", st.i, "identifyTrim")),
             Ev("vars", st.i, "")),
             Ev("end", st.i, "measure")),
           F \ {st.tmp}, now)
IdentifyTrimSettled(st, F, now, outcome, d) ==
    IF outcome # "ok" THEN Throw(st, F, "engine failed")
    ELSE EnterStep(
           Logged(Logged(Logged(
             [st EXCEPT
                !.vars = [v \in VarNames |->
                            CASE v = "w"     -> st.dims[1]
                              [] v = "h"     -> st.dims[2]
                              [] v = "trimW" -> d[1]
                              [] v = "trimH" -> d[2]
                              [] OTHER       -> @[v]],
                !.realized = Append(@, Ev("measure", st.i, "")),
                !.i = NextIndex(st)],
             Ev("invoked", st.i, "identifyTrim")),
             Ev("vars", st.i, "")),
             Ev("end", st.i, "measure")),
           F \ {st.tmp}, now)

\* const magickArgs = [...inputs, ...args, outputPath]: the builder's args
\* are kept as one token that names the operation.
MagickArgsOutputFirst(built, step, outputPath) ==
    <<outputPath>> \o built.inputs \o << <<"args", step.op>> >>
MagickArgs(built, step, outputPath) ==
    built.inputs \o << <<"args", step.op>> >> \o <<outputPath>>

\* A builder step's engine invocation settles (pipeline.js 145-162).
InvokeSettled(st, F, now, outcome) ==
    IF outcome # "ok"
    THEN Throw(st, Written(F, st.tmp, outcome), "engine failed")
    ELSE LET step == st.doc.steps[st.i + 1]
             st1 == Logged(st, Ev("invoked", st.i, "op"))
             st2 == IF Truthy(step.out)
                    THEN Logged(Register([st1 EXCEPT
                                            !.images = Set(@, step.out, st.tmp)],
                                         st.tmp),
                                Ev("bind", st.i, step.out))
                    ELSE st1
         IN EnterStep(
              Logged([st2 EXCEPT
                        !.realized =
                           Append(@, Ev(step.op, st.i,
                                        MagickArgs(
                                           buildOperation(step, st.images),
                                           step, st.tmp))),
                        !.i = NextIndex(st)],
                     Ev("end", st.i, step.op)),
              Written(F, st.tmp, outcome), now)


\* --------------------------------------------------------------- profiles.js

DEFAULT_TTL == 300000

MaxLoads == 2
MaxClock == 2
ShortTtl == 2

LoadIds == 1..MaxLoads

\* Profile sources: a URL, a {bucket, key} record, and an unsupported string.
HttpSource == "https://h/p.json"
S3ObjSource == "<object bucket=b key=p.json>"
FtpSource == "ftp://h/p.json"
AllSources == {HttpSource, S3ObjSource, FtpSource}

Sources == AllSources

\* typeof source === 'string' ? source : JSON.stringify(source)
CacheKey(source) ==
    IF source = S3ObjSource THEN "{\"bucket\":\"b\",\"key\":\"p.json\"}"
    ELSE source

\* The source dispatch (profiles.js 76-97): which sources are fetched at all.
SourceSupported(source) == source \in {HttpSource, S3ObjSource}

\* What an origin may answer with.
GoodProfile ==
    Doc("mask-web", <<Entry("a", TypeNameSpec)>>,
        <<Step("trimRepage", "a", "x"), Step("export", "x", Undef)>>)
NamelessProfile == [GoodProfile EXCEPT !.name = Undef]
BrokenProfile ==
    Doc("mask-web", << >>, <<Step("trimRepage", "q", "x")>>)
NullProfile == [Doc(Undef, << >>, << >>) EXCEPT !.js = "null"]
OriginAnswers == {GoodProfile, NamelessProfile, BrokenProfile, NullProfile}

\* A fetched document object: id tells one object from another.
Profile(id, doc) == [id |-> id, doc |-> doc]
NoProfile == Profile(0, Doc(Undef, << >>, << >>))

\* The Map, in insertion order: entries [key, profile, timestamp].
Has(cache, key) == \E n \in 1..Len(cache) : cache[n].key = key
Lookup(cache, key) ==
    cache[CHOOSE n \in 1..Len(cache) : cache[n].key = key]
Delete(cache, key) == SelectSeq(cache, LAMBDA e : e.key # key)
Put(cache, key, profile, timestamp) ==
    LET e == [key |-> key, profile |-> profile, timestamp |-> timestamp] IN
    IF Has(cache, key)
    THEN [n \in 1..Len(cache) |-> IF cache[n].key = key THEN e ELSE cache[n]]
    ELSE Append(cache, e)

\* Date.now() - cached.timestamp < ttl
FreshInclusive(entry, t, ttl) == t - entry.timestamp <= ttl
Fresh(entry, t, ttl) == t - entry.timestamp < ttl

\* The validation gate before the cache write (profiles.js 100-103).
AcceptsAnything(doc) == TRUE
Accepts(doc) ==
    LET v == validateProfile(doc) IN v.status = "returned" /\ v.valid

\* A loadProfile activation that has not been called.
IdleLoad ==
    [pc |-> "idle", source |-> "", ttl |-> 0, evicted |-> FALSE, fetches |-> 0,
     result |-> NoProfile, error |-> ""]

\* loadProfile up to its await (profiles.js 61-97): the value is the
\* activation and the Map after it.  ttl is read only when the key has an
\* entry, and never after the await: the activation keeps it only that long.
LoadBegin(cache, source, ttl, t) ==
    LET key == CacheKey(source)
        had == Has(cache, key)
        call == [IdleLoad EXCEPT !.source = source,
                                 !.ttl = IF had THEN ttl ELSE 0]
    IN
    IF had /\ Fresh(Lookup(cache, key), t, ttl)
    THEN [call |-> [call EXCEPT !.pc = "returned",
                                !.result = Lookup(cache, key).profile],
          cache |-> cache]
    ELSE LET cache1 == IF had THEN Delete(cache, key) ELSE cache
             call1 == [call EXCEPT !.evicted = had]
         IN IF ~SourceSupported(source)
            THEN [call |-> [call1 EXCEPT !.pc = "threw",
                                         !.error = "Unsupported profile source"],
                  cache |-> cache1]
            ELSE [call |-> [call1 EXCEPT !.pc = "fetching", !.fetches = @ + 1],
                  cache |-> cache1]

\* loadProfile after its await (profiles.js 99-111).  profile is the fetched
\* document object, of no account when the fetch failed.
LoadSettleStoresFirst(cache, call, failed, profile, t) ==
    IF failed
    THEN [call |-> [call EXCEPT !.pc = "threw", !.ttl = 0,
                                !.error = "fetch failed"],
          cache |-> cache]
    ELSE IF ~Accepts(profile.doc)
    THEN [call |-> [call EXCEPT !.pc = "threw", !.ttl = 0,
                                !.error = "Invalid profile"],
          cache |-> Put(cache, CacheKey(call.source), profile, t)]
    ELSE [call |-> [call EXCEPT !.pc = "returned", !.ttl = 0,
                                !.result = profile],
          cache |-> Put(cache, CacheKey(call.source), profile, t)]
LoadSettle(cache, call, failed, profile, t) ==
    IF failed
    THEN [call |-> [call EXCEPT !.pc = "threw", !.ttl = 0,
                                !.error = "fetch failed"],
          cache |-> cache]
    ELSE IF ~Accepts(profile.doc)
    THEN [call |-> [call EXCEPT !.pc = "threw", !.ttl = 0,
                                !.error =
                                   IF validateProfile(profile.doc).status = "threw"
                                   THEN "TypeError" ELSE "Invalid profile"],
          cache |-> cache]
    ELSE [call |-> [call EXCEPT !.pc = "returned", !.ttl = 0,
                                !.result = profile],
          cache |-> Put(cache, CacheKey(call.source), profile, t)]

\* clearProfileCache(source): the Map after it and the count it reports.
ClearResultDropsAll(cache, source) ==
    [cache |-> << >>, cleared |-> IF Truthy(source) THEN 1 ELSE Len(cache)]
ClearResult(cache, source) ==
    IF Truthy(source)
    THEN [cache |-> Delete(cache, CacheKey(source)), cleared |-> 1]
    ELSE [cache |-> << >>, cleared |-> Len(cache)]

\* listCachedProfiles(): one row per entry, in the Map's order.
ListResult(cache, t) ==
    [n \in 1..Len(cache) |->
        [source |-> cache[n].key, name |-> cache[n].profile.doc.name,
         cachedAt |-> cache[n].timestamp, age |-> t - cache[n].timestamp]]

\* ------------------------------------- expression engine (profiles.js)

ALLOWED_VARS ==
    {"w", "h", "trimW", "trimH", "padW", "padH", "targetW", "targetH"}
ALLOWED_FUNCS == {"max", "min", "floor", "ceil", "round", "abs"}

\* An expression string is the sequence of its lexemes: numbers, words,
\* single-character operators, and the characters the tokenizer's pattern
\* matches nowhere (white space, the comma).
NumberLexemes == {"2", "1.3333"}
OperatorLexemes == {"+", "-", "*", "/", "(", ")"}
SkippedLexemes == {" ", ","}
IsWord(x) == x \notin NumberLexemes \cup OperatorLexemes \cup SkippedLexemes

\* An argument that is not a string.
NotAString == <<NumberVal>>

\* expr.match(/(\d+\.?\d*|\w+|[+\-*/()])/g) || []
Tokens(expr) == SelectSeq(expr, LAMBDA x : x \notin SkippedLexemes)

\* tokens.indexOf(token): the first position that holds the token.
IndexOf(tokens, p) ==
    CHOOSE q \in 1..Len(tokens) :
       /\ tokens[q] = tokens[p]
       /\ \A n \in 1..(q - 1) : tokens[n] # tokens[p]

\* tokens[tokens.indexOf(token) + 1] === '(' for the token at position p.
IsFunc(tokens, p) ==
    LET q == IndexOf(tokens, p) + 1 IN
    q <= Len(tokens) /\ tokens[q] = "("

\* The identifier loop (profiles.js 167-185) from position p: the error of
\* the first token it refuses, or "" when it refuses none.
RECURSIVE IdentifierError(_, _)
IdentifierError(tokens, p) ==
    IF p > Len(tokens) THEN ""
    ELSE IF ~IsWord(tokens[p]) THEN IdentifierError(tokens, p + 1)
    ELSE IF IsFunc(tokens, p)
         THEN IF tokens[p] \notin ALLOWED_FUNCS THEN "Unknown function"
              ELSE IdentifierError(tokens, p + 1)
    ELSE IF tokens[p] \notin ALLOWED_VARS THEN "Unknown variable"
         ELSE IdentifierError(tokens, p + 1)

\* The balance loop (profiles.js 188-194) from position p at a given depth.
RECURSIVE Balanced(_, _, _)
Balanced(tokens, p, depth) ==
    IF depth < 0 THEN FALSE
    ELSE IF p > Len(tokens) THEN depth = 0
    ELSE Balanced(tokens, p + 1,
                  depth + (IF tokens[p] = "(" THEN 1
                           ELSE IF tokens[p] = ")" THEN -1 ELSE 0))

ParseResult(valid, error, ast) ==
    [status |-> "returned", valid |-> valid, error |-> error, ast |-> ast]

parseExpression(expr) ==
    IF expr = NotAString
    THEN ParseResult(FALSE, "Expression must be a string", << >>)
    ELSE LET tokens == Tokens(expr) IN
         IF IdentifierError(tokens, 1) # ""
         THEN ParseResult(FALSE, IdentifierError(tokens, 1), << >>)
         ELSE IF ~Balanced(tokens, 1, 0)
         THEN ParseResult(FALSE, "Unbalanced parentheses", << >>)
         ELSE ParseResult(TRUE, "", tokens)

\* compileToFx(expr): the expression without its white space, or the
\* parser's error thrown.
compileToFx(expr) ==
    IF ~parseExpression(expr).valid
    THEN [status |-> "threw", message |-> parseExpression(expr).error,
          value |-> << >>]
    ELSE [status |-> "returned", message |-> "",
          value |-> SelectSeq(expr, LAMBDA x : x # " ")]

\* Numbers are kept to four decimals, as integers of ten-thousandths.
Scale == 100 * 100

\* Number(lexeme) for the numerals of the model.
NumberValue(x) ==
    CASE x = "2"      -> 2 * Scale
      [] x = "1.3333" -> 13333
      [] x = "100"    -> 100 * Scale
      [] x = "90"     -> 90 * Scale

\* a * b, by whole and fractional parts to stay within 32 bits.
Times(a, b) ==
    (a \div Scale) * b + ((a % Scale) * b) \div Scale

\* Math.round(x)
MathRound(x) == (x + Scale \div 2) \div Scale

\* vars[name]
EnvGet(env, name) == IF name \in DOMAIN env THEN env[name] ELSE Undef

\* What `Function('vars', 'Math', 'return ' + code)(vars, Math)` computes for
\* the expressions of the model: sums and products of numerals, bound
\* variables, parenthesized expressions, comma expressions and calls of max
\* and min with at least one argument.  The result is the value and the
\* position after it; anything else fails (a SyntaxError, a TypeError, or a
\* result that is not a number).
Fail == [ok |-> FALSE, v |-> 0, p |-> 0]
Got(v, p) == [ok |-> TRUE, v |-> v, p |-> p]
At(code, p) == IF p <= Len(code) THEN code[p] ELSE ""

RECURSIVE CommaExpr(_, _, _)
RECURSIVE Sum(_, _, _)
RECURSIVE Product(_, _, _)
RECURSIVE Operand(_, _, _)
RECURSIVE Arguments(_, _, _, _)

Operand(code, p, env) ==
    LET x == At(code, p) IN
    IF x \in NumberLexemes THEN Got(NumberValue(x), p + 1)
    ELSE IF x \in ALLOWED_VARS /\ EnvGet(env, x) # Undef
         THEN Got(NumberValue(EnvGet(env, x)), p + 1)
    ELSE IF x = "("
         THEN LET r == CommaExpr(code, p + 1, env) IN
              IF r.ok /\ At(code, r.p) = ")" THEN Got(r.v, r.p + 1) ELSE Fail
    ELSE IF x \in {"max", "min"} /\ At(code, p + 1) = "("
         THEN Arguments(code, p + 2, env, x)
    ELSE Fail

Arguments(code, p, env, f) ==
    LET r == Sum(code, p, env) IN
    IF ~r.ok THEN Fail
    ELSE IF At(code, r.p) = ")" THEN Got(r.v, r.p + 1)
    ELSE IF At(code, r.p) = ","
         THEN LET more == Arguments(code, r.p + 1, env, f) IN
              IF ~more.ok THEN Fail
              ELSE Got(IF (f = "max") = (r.v >= more.v) THEN r.v ELSE more.v,
                       more.p)
    ELSE Fail

Product(code, p, env) ==
    LET l == Operand(code, p, env) IN
    IF l.ok /\ At(code, l.p) = "*"
    THEN LET r == Product(code, l.p + 1, env) IN
         IF r.ok THEN Got(Times(l.v, r.v), r.p) ELSE Fail
    ELSE l

Sum(code, p, env) ==
    LET l == Product(code, p, env) IN
    IF l.ok /\ At(code, l.p) = "+"
    THEN LET r == Sum(code, l.p + 1, env) IN
         IF r.ok THEN Got(l.v + r.v, r.p) ELSE Fail
    ELSE l

CommaExpr(code, p, env) ==
    LET l == Sum(code, p, env) IN
    IF l.ok /\ At(code, l.p) = ","
    THEN CommaExpr(code, l.p + 1, env)
    ELSE l

JsEval(code, env) ==
    LET r == CommaExpr(code, 1, env) IN
    IF r.ok /\ r.p = Len(code) + 1 THEN r ELSE Fail

EvalResult(status, type, n, formula, message) ==
    [status |-> status, type |-> type, n |-> n, formula |-> formula,
     message |-> message]

\* evaluateExpression(expr, vars) (profiles.js 215-251).
evaluateExpression(expr, env) ==
    LET parsed == parseExpression(expr) IN
    IF ~parsed.valid
    THEN EvalResult("threw", "", 0, << >>, parsed.error)
    ELSE
      LET exprVars == {parsed.ast[p] : p \in 1..Len(parsed.ast)}
                         \cap ALLOWED_VARS
      IN
      IF \E v \in exprVars : EnvGet(env, v) = Undef
      THEN EvalResult("returned", "fx", 0, compileToFx(expr).value, "")
      ELSE LET result == JsEval(SelectSeq(expr, LAMBDA x : x # " "), env) IN
           IF result.ok
           THEN EvalResult("returned", "number", MathRound(result.v),
                           << >>, "")
           ELSE EvalResult("threw", "", 0, << >>,
                           "Expression evaluation failed")

\* A template string is the sequence of its pieces: the placeholders the
\* pattern /\$\{(\w+)\}/g matches, and the text between them.
Placeholders == {"${runId}", "${base}", "${constructor}"}

\* The identifier the pattern captures in a placeholder.
Captured(piece) ==
    CASE piece = "${runId}"       -> "runId"
      [] piece = "${base}"        -> "base"
      [] piece = "${constructor}" -> "constructor"

\* A property value: a string (as its pieces), or undefined.
Str(pieces) == [def |-> TRUE, str |-> pieces]
Undefined == [def |-> FALSE, str |-> << >>]

\* vars[varName] on a plain object: its own property or, when it has none of
\* that name, the one it inherits from Object.prototype.
PropertyOf(obj, name) ==
    IF name \in DOMAIN obj /\ obj[name].def THEN obj[name]
    ELSE IF name = "constructor"
         THEN Str(<<"function Object() { [native code] }">>)
    ELSE Undefined

\* template.replace(pattern, callback): one pass over the template from
\* piece p; what a callback returns is not scanned.
RECURSIVE ReplaceFrom(_, _, _)
ReplaceFrom(template, obj, p) ==
    IF p > Len(template) THEN << >>
    ELSE (IF template[p] \in Placeholders
             /\ PropertyOf(obj, Captured(template[p])).def
          THEN PropertyOf(obj, Captured(template[p])).str
          ELSE <<template[p]>>)
         \o ReplaceFrom(template, obj, p + 1)

\* substituteVars(template, vars) (profiles.js 257-264, io.js 166-173).
substituteVars(template, obj) ==
    IF template = NotAString THEN template
    ELSE ReplaceFrom(template, obj, 1)

\* ----------------------------------------------------------------- state

VARIABLES
    vdoc,          \* the document handed to validatePipeline
    vres,          \* what validatePipeline gave for it
    runs,          \* executePipeline's activations: locals and position
    files,         \* the transient files on storage
    now,           \* Date.now()
    profileCache,  \* the module's Map of cached profiles
    loads,         \* loadProfile's activations
    fetched,       \* how many document objects the origins have produced
    admin,         \* what the clearProfileCache / listCachedProfiles call
                   \* of the last step gave its caller
    heap,          \* the vars objects: the caller's params and each run's copy
    call,          \* a call of one of the synchronous functions: its arguments
    ret,           \* what that call gave
    reqs           \* the POST /v1/run handler's activations

valVars == <<vdoc, vres>>
execVars == <<runs, files>>
cacheVars == <<profileCache, loads, fetched, admin>>
callerVars == <<heap>>
pureVars == <<call, ret>>
serveVars == <<reqs>>
vars ==
    <<vdoc, vres, runs, files, now, profileCache, loads, fetched, admin, heap,
      call, ret, reqs>>

\* Of an admin call: the argument and the count of clearProfileCache, the
\* number of rows listCachedProfiles returned.  The value is handed to the
\* caller at once, so a step that is not an admin call leaves NoAdmin.
NoAdmin == [op |-> "none", source |-> Undef, cleared |-> 0, listed |-> 0]

Pending == [status |-> "pending", valid |-> FALSE, errors |-> NoErrors]

\* A call of fn on arg (an expression, a template, a step) with env (the
\* bindings, the symbol table).
Call(fn, arg, env) == [fn |-> fn, arg |-> arg, env |-> env]
NoRet == [status |-> "pending"]
PureIdle == call = Call("none", << >>, << >>) /\ ret = NoRet

\* A /v1/run request that has not arrived: the query's profile, the body's
\* inputs (given or not), the document loadProfile gave, and the response's
\* status.
IdleReq ==
    [pc |-> "idle", profileName |-> Undef, given |-> FALSE, inputs |-> << >>,
     profile |-> NoProfile, status |-> 0]
ServeIdle == reqs = [q \in RunIds |-> IdleReq]

ValIdle == vdoc = Doc(Undef, << >>, << >>) /\ vres = Pending
ExecIdle == runs = [r \in RunIds |-> IdleRun] /\ files = {}
\* The objects that hold variables: the params object the caller passes (to
\* every run, the same one) and the object `{ ...params }` makes in each run.
ParamsObject == 0
Objects == {ParamsObject} \cup RunIds
NoVars == [v \in VarNames |-> Undef]
HeapWith(params) ==
    [o \in Objects |-> IF o = ParamsObject THEN params ELSE NoVars]
HeapIdle == heap \in {HeapWith(params) : params \in ParamSets}

\* const vars = { ...params }: the object run r's vars names.
VarsObjectIsParams(r) == ParamsObject
VarsObject(r) == r

CacheIdle ==
    /\ profileCache = << >>
    /\ loads = [c \in LoadIds |-> IdleLoad]
    /\ fetched = 0
    /\ admin = NoAdmin

\* ------------------------------------------------- validator as a machine

InitValidate ==
    /\ vdoc \in ValDocs
    /\ vres = Pending
    /\ ExecIdle
    /\ CacheIdle
    /\ HeapIdle
    /\ PureIdle
    /\ ServeIdle
    /\ now = 0

\* A caller applies validatePipeline to the document.
Validate ==
    /\ vres.status = "pending"
    /\ vres' = validatePipeline(vdoc)
    /\ UNCHANGED <<vdoc, execVars, cacheVars, callerVars,
                   pureVars, serveVars, now>>

NextValidate == Validate

SpecValidate == InitValidate /\ [][NextValidate]_vars

\* ------------------------------------------------------- executor actions

\* Run r as its code sees it: its locals, and its vars read through the
\* object they name.
Cur(r) ==
    IF runs[r].k > 0
    THEN [runs[r] EXCEPT !.vars = heap[VarsObject(r)]]
    ELSE runs[r]

\* Run r goes on to res.run; what it wrote into vars lands in the object.
Becomes(r, res) ==
    /\ runs' = [runs EXCEPT ![r] = res.run]
    /\ files' = res.files
    /\ heap' = IF res.run.k > 0
               THEN [heap EXCEPT ![VarsObject(r)] = res.run.vars]
               ELSE heap
    /\ UNCHANGED <<now, valVars, cacheVars, pureVars, serveVars>>

\* A caller calls executePipeline(doc, params).
Start(r) ==
    /\ runs[r].pc = "idle"
    /\ \E doc \in ExecDocs, rnd \in RandVals :
          Becomes(r, StartRun(doc, heap[ParamsObject], files, now, rnd))

ImportDone(r) ==
    /\ runs[r].pc = "import"
    /\ \E outcome \in {"ok", "fail"}, rnd \in RandVals :
          Becomes(r, ImportSettled(Cur(r), files, now, outcome, rnd))

EncodeDone(r) ==
    /\ runs[r].pc = "encode"
    /\ \E outcome \in Outcomes : Becomes(r, EncodeSettled(Cur(r), files, outcome))

ExportDone(r) ==
    /\ runs[r].pc = "export"
    /\ \E outcome \in {"ok", "fail"} :
          Becomes(r, ExportSettled(Cur(r), files, now, outcome))

IdentifyDone(r) ==
    /\ runs[r].pc = "identify"
    /\ \E outcome \in {"ok", "fail"}, d \in Dims :
          Becomes(r, IdentifySettled(Cur(r), files, now, outcome, d))

TrimDone(r) ==
    /\ runs[r].pc = "trim"
    /\ \E outcome \in Outcomes : Becomes(r, TrimSettled(Cur(r), files, outcome))

IdentifyTrimDone(r) ==
    /\ runs[r].pc = "identifyTrim"
    /\ \E outcome \in {"ok", "fail"}, d \in TrimDims :
          Becomes(r, IdentifyTrimSettled(Cur(r), files, now, outcome, d))

InvokeDone(r) ==
    /\ runs[r].pc = "invoke"
    /\ \E outcome \in Outcomes :
          Becomes(r, InvokeSettled(Cur(r), files, now, outcome))

Init ==
    /\ ExecIdle
    /\ ValIdle
    /\ CacheIdle
    /\ HeapIdle
    /\ PureIdle
    /\ ServeIdle
    /\ now = 0

\* One run on its own.
Next ==
    \/ Start(1)
    \/ ImportDone(1)
    \/ EncodeDone(1)
    \/ ExportDone(1)
    \/ IdentifyDone(1)
    \/ TrimDone(1)
    \/ IdentifyTrimDone(1)
    \/ InvokeDone(1)

Spec == Init /\ [][Next]_vars

\* ------------------------------------------------------ an engine that hangs

\* The awaits on the engine that carry a timeout option (pipeline.js 79, 108,
\* 145-148); the two identify calls of measure (103, 109) carry none.
HasTimeout(pc) == pc \in {"encode", "trim", "invoke"}

\* The engine does not answer the invocation run r awaits.  With a timeout
\* the child is killed and the await rejects; without one the await never
\* settles.
EngineHangs(r) ==
    \/ /\ runs[r].pc = "encode"
       /\ \E outcome \in {"fail", "fail-partial"} :
             Becomes(r, EncodeSettled(Cur(r), files, outcome))
    \/ /\ runs[r].pc = "trim"
       /\ \E outcome \in {"fail", "fail-partial"} :
             Becomes(r, TrimSettled(Cur(r), files, outcome))
    \/ /\ runs[r].pc = "invoke"
       /\ \E outcome \in {"fail", "fail-partial"} :
             Becomes(r, InvokeSettled(Cur(r), files, now, outcome))
    \/ /\ runs[r].pc \in {"identify", "identifyTrim"}
       /\ ~HasTimeout(runs[r].pc)
       /\ runs' = [runs EXCEPT ![r].pc = "hung"]
       /\ UNCHANGED <<files, now, valVars, cacheVars, callerVars,
                      pureVars, serveVars>>

\* The documents runs against a hanging engine are made with.
LiveDocs ==
    { Doc(Undef, inp, st) :
        inp \in {<<Entry("a", UrlSpec)>>,
                 <<Entry("a", UrlSpec), Entry("b", ObjS3Spec)>>},
        st \in SeqsUpTo({ Step("trimRepage", "a", "x"),
                          Step("measure", "a", "m"),
                          [Step("export", "a", Undef) EXCEPT !.as = "jpg"],
                          Step("export", "a", Undef) }, 2) }

StartLive(r) ==
    /\ runs[r].pc = "idle"
    /\ \E doc \in LiveDocs, rnd \in RandVals :
          Becomes(r, StartRun(doc, heap[ParamsObject], files, now, rnd))

NextLive ==
    \/ StartLive(1)
    \/ ImportDone(1)
    \/ EncodeDone(1)
    \/ ExportDone(1)
    \/ IdentifyDone(1)
    \/ TrimDone(1)
    \/ IdentifyTrimDone(1)
    \/ InvokeDone(1)
    \/ EngineHangs(1)

\* Importer and exporter return, an engine that answers is heard, a timeout
\* that is set fires: whatever step is possible is eventually taken.
SpecLive == Init /\ [][NextLive]_vars /\ WF_vars(NextLive)

\* -------------------------------------------------------- concurrent runs

\* The documents two concurrent requests are made with.
RunsDocs ==
    { Doc(Undef, <<Entry("a", UrlSpec)>>,
          <<Step("trimRepage", "a", "x"),
            [Step("export", "x", Undef) EXCEPT !.as = "jpg"]>>),
      Doc(Undef, <<Entry("a", UrlSpec)>>,
          <<Step("measure", "a", "m"), Step("export", "a", Undef)>>),
      Doc(Undef, <<Entry("a", ObjBase64Spec)>>,
          <<[Step("format", "a", "x") EXCEPT !.format = "jpg"]>>) }

\* Math.random() (io.js 21) is taken to give a suffix that no import path in
\* use carries.
FreshRand(rnd) ==
    \A r \in RunIds :
       /\ \A c \in DOMAIN runs[r].cleanups :
             ~(runs[r].cleanups[c].kind = "import"
               /\ runs[r].cleanups[c].rnd = rnd)
       /\ ~(runs[r].pc = "import" /\ runs[r].tmp.rnd = rnd)

\* A request handler calls executePipeline(doc, params, TEMP_DIR) while
\* another run may be in progress (server.js 75, 146).
StartConcurrent(r) ==
    /\ runs[r].pc = "idle"
    /\ \A s \in RunIds : s < r => runs[s].pc # "idle"
    /\ \E doc \in RunsDocs, rnd \in RandVals :
          /\ FreshRand(rnd)
          /\ Becomes(r, StartRun(doc, heap[ParamsObject], files, now, rnd))

\* A millisecond passes.
Millisecond ==
    /\ now < MaxClock
    /\ now' = now + 1
    /\ UNCHANGED <<cacheVars, valVars, execVars, callerVars,
                   pureVars, serveVars>>

InitRuns == Init

NextRuns ==
    \/ \E r \in RunIds :
          \/ StartConcurrent(r)
          \/ ImportDone(r)
          \/ EncodeDone(r)
          \/ ExportDone(r)
          \/ IdentifyDone(r)
          \/ TrimDone(r)
          \/ IdentifyTrimDone(r)
          \/ InvokeDone(r)
    \/ Millisecond

SpecRuns == InitRuns /\ [][NextRuns]_vars

\* ------------------------------------------------- synchronous functions

MaxLexemes == 5

\* The lexemes the expressions handed to parseExpression are made of.
ParseLexemes == {"w", "max", "foo", "(", ")", "+", "2"}

\* Two words or numbers side by side would be one lexeme.
WellLexed(expr) ==
    \A p \in 1..(Len(expr) - 1) :
       expr[p] \in OperatorLexemes \cup SkippedLexemes
       \/ expr[p + 1] \in OperatorLexemes \cup SkippedLexemes

ParseExprs ==
    {e \in SeqsUpTo(ParseLexemes, MaxLexemes) : WellLexed(e)}
    \cup {NotAString}

\* The expressions handed to evaluateExpression, and the bindings.
EvalExprs ==
    { <<"max", "(", "padW", ",", " ", "padH", "*", "1.3333", ")">>,
      <<"padW", " ", "+", " ", "2">>,
      <<"(", "padW", "+", "padH", ")", "*", "2">>,
      <<"w">>,
      <<"2", "*", "1.3333">>,
      <<"min", "(", "w", ",", "padW", "+", "padH", ")">>,
      <<"padW", " ", "+">>,
      <<"padW", " ", "padH">>,
      <<"(", ")">>,
      <<"w", "+", "w", "(", "2", ")">>,
      <<"foo", "+", "2">>,
      <<"(", "padW">> }

EvalEnvs ==
    [{"w", "padW", "padH"} -> {Undef, "100", "90"}]

\* The steps and the symbol tables buildOperation is called with.
BuildSteps ==
    { Step("trimRepage", s, "x") : s \in {"a", "q", Undef} }
    \cup { [Step("maskAlpha", s, "x") EXCEPT !.mask = k] :
             s \in {"a", "q"}, k \in {"b", "q"} }
    \cup { [Step("composite", Undef, "y")
              EXCEPT !.base = s, !.overlay = k, !.mode = "Over"] :
             s \in {"a", "q"}, k \in {"b", "q"} }
    \cup { [Step("padToAspect", "a", "y")
              EXCEPT !.aspect = r, !.padPct = c, !.bg = "white"] :
             r \in {"3:4", "0:4", "2:1"}, c \in {"0.06", "0.5", Undef} }
    \cup { [Step("resize", "a", "x") EXCEPT !.mode = k, !.value = "800"] :
             k \in {"width", "crop"} }
    \cup { [Step("flatten", s, "x") EXCEPT !.bg = ""] : s \in {"a", "q"} }
    \cup { [Step("trimRepage", "a", "y") EXCEPT !.mask = "q"],
           [Step("colorspace", "a", "x") EXCEPT !.space = "sRGB"],
           [Step("format", "b", "x") EXCEPT !.format = "jpg"],
           Step("measure", "a", "m"), Step("export", "a", Undef),
           Step("bogus", "a", "y"), Step(Undef, "a", "y") }

BuildTables ==
    LET none == [n \in {} |-> NoPath]
        one == Set(none, "a", Path("import", 0, 1, -1, ".png"))
    IN {none, one, Set(one, "b", Path("import", 0, 2, -1, ".arw"))}

MaxPieces == 3

\* The templates and the vars substituteVars is called with.
Templates ==
    SeqsUpTo({"/"} \cup Placeholders, MaxPieces)
    \cup {NotAString}

TemplateVars ==
    { [runId |-> r, base |-> b] :
        r \in {Undefined, Str(<<"r7">>), Str(<<"${base}">>)},
        b \in {Undefined, Str(<<"chair">>)} }

ParseCalls == {Call("parseExpression", e, << >>) : e \in ParseExprs}
EvalCalls ==
    {Call("evaluateExpression", e, env) : e \in EvalExprs, env \in EvalEnvs}
SubstituteCalls ==
    {Call("substituteVars", tpl, obj) :
       tpl \in Templates, obj \in TemplateVars}
BuildCalls ==
    {Call("buildOperation", s, [images |-> tab, vars |-> v]) :
       s \in BuildSteps, tab \in BuildTables, v \in ParamSets}

InitPure ==
    /\ \/ call \in ParseCalls
       \/ call \in EvalCalls
       \/ call \in SubstituteCalls
       \/ call \in BuildCalls
    /\ ret = NoRet
    /\ ValIdle
    /\ ExecIdle
    /\ CacheIdle
    /\ HeapIdle
    /\ ServeIdle
    /\ now = 0

\* What only a synchronous call leaves alone.
PureFrame ==
    UNCHANGED <<call, valVars, execVars, cacheVars, callerVars, serveVars, now>>

\* parseExpression(expr) is called.
Parse ==
    /\ call.fn = "parseExpression"
    /\ ret.status = "pending"
    /\ ret' = parseExpression(call.arg)
    /\ PureFrame

\* evaluateExpression(expr, vars) is called.
Evaluate ==
    /\ call.fn = "evaluateExpression"
    /\ ret.status = "pending"
    /\ ret' = evaluateExpression(call.arg, call.env)
    /\ PureFrame

\* buildOperation(step, images, vars) is called: what it returns or throws,
\* and what it leaves in its arguments and on storage.
Build ==
    /\ call.fn = "buildOperation"
    /\ ret.status = "pending"
    /\ LET step == call.arg
           failure == BuildFailure(step, call.env.images)
           after == ArgumentsAfter(step, call.env.images, call.env.vars)
       IN
       /\ ret' = IF failure.kind # "none"
                 THEN [status |-> "threw", error |-> failure]
                 ELSE [status |-> "returned",
                       inputs |-> buildOperation(step, call.env.images).inputs,
                       args |-> BuilderArgs(step),
                       outputFormat |->
                          buildOperation(step, call.env.images).outputFormat]
       /\ call' = [call EXCEPT
                     !.arg = after.step,
                     !.env = [images |-> after.images, vars |-> after.vars]]
    /\ UNCHANGED <<valVars, execVars, cacheVars, callerVars, serveVars, now>>

\* substituteVars(template, vars) is called.
Substitute ==
    /\ call.fn = "substituteVars"
    /\ ret.status = "pending"
    /\ ret' = [status |-> "returned",
               value |-> substituteVars(call.arg, call.env)]
    /\ PureFrame

NextPure ==
    \/ Parse
    \/ Substitute
    \/ Build
    \/ Evaluate

SpecPure == InitPure /\ [][NextPure]_vars

\* ---------------------------------------------------------- cache actions

\* A caller calls loadProfile(source, ttl).
LoadCall(c) ==
    /\ loads[c].pc = "idle"
    /\ \A d \in LoadIds : d < c => loads[d].pc # "idle"
    /\ \E source \in Sources, ttl \in {DEFAULT_TTL, ShortTtl} :
          LET res == LoadBegin(profileCache, source, ttl, now) IN
          /\ loads' = [loads EXCEPT ![c] = res.call]
          /\ profileCache' = res.cache
    /\ admin' = NoAdmin
    /\ UNCHANGED <<fetched, now, valVars, execVars, callerVars,
                   pureVars, serveVars>>

\* The origin answers the fetch of activation c with a new document object.
FetchDone(c) ==
    /\ loads[c].pc = "fetching"
    /\ \E doc \in OriginAnswers :
          LET res == LoadSettle(profileCache, loads[c], FALSE,
                                Profile(fetched + 1, doc), now) IN
          /\ loads' = [loads EXCEPT ![c] = res.call]
          /\ profileCache' = res.cache
    /\ fetched' = fetched + 1
    /\ admin' = NoAdmin
    /\ UNCHANGED <<now, valVars, execVars, callerVars, pureVars, serveVars>>

\* The fetch of activation c fails (network, status, JSON.parse).
FetchFailed(c) ==
    /\ loads[c].pc = "fetching"
    /\ LET res == LoadSettle(profileCache, loads[c], TRUE, NoProfile, now) IN
          /\ loads' = [loads EXCEPT ![c] = res.call]
          /\ profileCache' = res.cache
    /\ admin' = NoAdmin
    /\ UNCHANGED <<fetched, now, valVars, execVars, callerVars,
                   pureVars, serveVars>>

\* POST /admin/reload: clearProfileCache(source), or with no source.
Clear ==
    /\ \E source \in Sources \cup {Null} :
          LET res == ClearResult(profileCache, source) IN
          /\ profileCache' = res.cache
          /\ admin' = [op |-> "clear", source |-> source,
                       cleared |-> res.cleared, listed |-> 0]
    /\ UNCHANGED <<loads, fetched, now, valVars, execVars, callerVars,
                   pureVars, serveVars>>

\* GET /admin/profiles: listCachedProfiles().
List ==
    /\ admin' = [op |-> "list", source |-> Undef, cleared |-> 0,
                 listed |-> Len(ListResult(profileCache, now))]
    /\ UNCHANGED <<profileCache, loads, fetched, now, valVars, execVars,
                   callerVars, pureVars, serveVars>>

\* Time passes: a millisecond (at most MaxClock of them in a row), or a whole
\* default TTL (once).
Tick ==
    /\ \E d \in {1, DEFAULT_TTL} :
          /\ d = 1 => (now % DEFAULT_TTL) < MaxClock
          /\ d = DEFAULT_TTL => now < DEFAULT_TTL
          /\ now' = now + d
    /\ admin' = NoAdmin
    /\ UNCHANGED <<profileCache, loads, fetched, valVars, execVars,
                   callerVars, pureVars, serveVars>>

InitCache ==
    /\ CacheIdle
    /\ ExecIdle
    /\ ValIdle
    /\ HeapIdle
    /\ PureIdle
    /\ ServeIdle
    /\ now = 0

NextCache ==
    \/ \E c \in LoadIds : LoadCall(c) \/ FetchDone(c) \/ FetchFailed(c)
    \/ Clear
    \/ List
    \/ Tick

SpecCache == InitCache /\ [][NextCache]_vars

\* ----------------------------------------------- loads in flight, closely

\* The origin serves the fetch of activation c: the document is on its way
\* to the process, and the activation still waits at its await.
OriginAnswer(c) ==
    /\ loads[c].pc = "fetching"
    /\ \E doc \in OriginAnswers :
          loads' = [loads EXCEPT ![c].pc = "answered",
                                 ![c].result = Profile(fetched + 1, doc)]
    /\ fetched' = fetched + 1
    /\ admin' = NoAdmin
    /\ UNCHANGED <<profileCache, now, valVars, execVars, callerVars,
                   pureVars, serveVars>>

\* The awaited fetch of activation c resolves with the document that was
\* served, and loadProfile runs to its end (profiles.js 99-111).
Deliver(c) ==
    /\ loads[c].pc = "answered"
    /\ LET res == LoadSettle(profileCache,
                             [loads[c] EXCEPT !.result = NoProfile], FALSE,
                             loads[c].result, now) IN
          /\ loads' = [loads EXCEPT ![c] = res.call]
          /\ profileCache' = res.cache
    /\ admin' = NoAdmin
    /\ UNCHANGED <<fetched, now, valVars, execVars, callerVars,
                   pureVars, serveVars>>

NextFlight ==
    \/ \E c \in LoadIds :
          LoadCall(c) \/ OriginAnswer(c) \/ Deliver(c) \/ FetchFailed(c)
    \/ Clear

SpecFlight == InitCache /\ [][NextFlight]_vars

\* ------------------------------------------------- POST /v1/run (server.js)

\* What requests carry: the query's profile and the body's inputs.
ServeNames == {"mask-web", "other", Undef}
ServeInputs == {<<Entry("a", UrlSpec)>>, <<Entry("b", UrlSpec)>>}

\* `{ ...profile, inputs }` (server.js 137-140): the new pipeline object, and
\* the profile object as the merge leaves it.
MergeAssignsInputs(profile, inputs) ==
    [pipeline |-> [profile.doc EXCEPT !.inputs = inputs],
     cached |-> [profile EXCEPT !.doc.inputs = inputs]]
Merge(profile, inputs) ==
    [pipeline |-> [profile.doc EXCEPT !.inputs = inputs],
     cached |-> profile]

\* The Map when the object of profile's identity, which an entry may hold,
\* is in the state of profile.
Sharing(cache, profile) ==
    [n \in 1..Len(cache) |->
        IF cache[n].profile.id = profile.id
        THEN [cache[n] EXCEPT !.profile = profile]
        ELSE cache[n]]

Responded(req, status) == [req EXCEPT !.pc = "responded", !.status = status]

\* The handler from the return of loadProfile to its next await, or to its
\* response (server.js 127-142): the request, its run, the files, the Map.
Handle(req, profile, cache, F, params, t, rnd) ==
    LET req1 == [req EXCEPT !.profile = profile] IN
    IF profile.doc.name # req.profileName
    THEN [req |-> Responded(req1, 404), run |-> IdleRun, files |-> F,
          cache |-> cache]
    ELSE IF ~req.given
    THEN [req |-> Responded(req1, 400), run |-> IdleRun, files |-> F,
          cache |-> cache]
    ELSE LET merged == Merge(profile, req.inputs)
             res == StartRun(merged.pipeline, params, F, t, rnd)
         IN [req |-> [req1 EXCEPT !.pc = "running"], run |-> res.run,
             files |-> res.files, cache |-> Sharing(cache, merged.cached)]

\* The handler's activation q goes on from a settled loadProfile.
Served(q, req, load, cache, rnd) ==
    LET h == IF load.pc = "returned"
             THEN Handle(req, load.result, cache, files,
                         heap[ParamsObject], now, rnd)
             ELSE [req |-> Responded(req, 500), run |-> IdleRun,
                   files |-> files, cache |-> cache]
    IN /\ reqs' = [reqs EXCEPT ![q] = h.req]
       /\ runs' = [runs EXCEPT ![q] = h.run]
       /\ files' = h.files
       /\ profileCache' = h.cache
       /\ heap' = IF h.run.k > 0
                  THEN [heap EXCEPT ![VarsObject(q)] = h.run.vars]
                  ELSE heap
       /\ loads' = [loads EXCEPT ![q] = load]
       /\ admin' = NoAdmin
       /\ UNCHANGED <<now, valVars, pureVars>>

\* A request arrives (server.js 112-130): without a profile it is refused;
\* else loadProfile is called, and on a cache hit the handler goes on.
ServeRequest(q) ==
    /\ reqs[q].pc = "idle"
    /\ \A p \in RunIds : p < q => reqs[p].pc # "idle"
    /\ \E name \in ServeNames, given \in BOOLEAN, inputs \in ServeInputs,
          rnd \in RandVals :
          LET req == [IdleReq EXCEPT !.profileName = name, !.given = given,
                                     !.inputs = IF given THEN inputs
                                                ELSE << >>]
              lb == LoadBegin(profileCache, HttpSource, DEFAULT_TTL, now)
          IN
          /\ FreshRand(rnd)
          /\ IF ~Truthy(name)
             THEN /\ reqs' = [reqs EXCEPT ![q] = Responded(req, 400)]
                  /\ admin' = NoAdmin
                  /\ UNCHANGED <<profileCache, loads, runs, files, heap, now,
                                 valVars, pureVars>>
             ELSE IF lb.call.pc = "fetching"
             THEN /\ reqs' = [reqs EXCEPT ![q] = [req EXCEPT !.pc = "loading"]]
                  /\ loads' = [loads EXCEPT ![q] = lb.call]
                  /\ profileCache' = lb.cache
                  /\ admin' = NoAdmin
                  /\ UNCHANGED <<runs, files, heap, now, valVars, pureVars>>
             ELSE Served(q, req, lb.call, lb.cache, rnd)
    /\ UNCHANGED fetched

\* The origin answers the fetch of request q; loadProfile settles and the
\* handler goes on (profiles.js 99-111, server.js 130-142).
ServeLoaded(q) ==
    /\ reqs[q].pc = "loading"
    /\ \E doc \in OriginAnswers, rnd \in RandVals :
          LET res == LoadSettle(profileCache, loads[q], FALSE,
                                Profile(fetched + 1, doc), now)
          IN /\ FreshRand(rnd)
             /\ Served(q, reqs[q], res.call, res.cache, rnd)
    /\ fetched' = fetched + 1

\* The fetch of request q fails: the handler answers 500.
ServeLoadFailed(q) ==
    /\ reqs[q].pc = "loading"
    /\ LET res == LoadSettle(profileCache, loads[q], TRUE, NoProfile, now)
       IN Served(q, reqs[q], res.call, res.cache, 1)
    /\ UNCHANGED fetched

NextServe ==
    \E q \in RunIds :
       \/ ServeRequest(q)
       \/ ServeLoaded(q)
       \/ ServeLoadFailed(q)
       \/ ImportDone(q)
       \/ InvokeDone(q)
       \/ ExportDone(q)

SpecServe == Init /\ [][NextServe]_vars

\* ------------------------------------------------------------ properties

Delivered(st) == st.pc \in {"returned", "threw"}

\* C1: when a run's result or error has been delivered, every release action
\* registered during the run has been executed exactly once and its file is
\* gone; until then none has been executed.
C1_ReleasedExactlyOnce ==
    \A r \in RunIds :
       LET st == runs[r] IN
       /\ Len(st.released) = Len(st.cleanups)
       /\ \A c \in DOMAIN st.cleanups :
             IF Delivered(st)
             THEN st.released[c] = 1 /\ st.cleanups[c] \notin files
             ELSE st.released[c] = 0

\* A run that failed at a step after two release actions were registered.
C1_Witness ==
    /\ runs[1].pc = "threw"
    /\ runs[1].i >= 1
    /\ Len(runs[1].cleanups) >= 2
    /\ \A c \in DOMAIN runs[1].cleanups : runs[1].released[c] = 1

\* C2: after a run has returned or thrown, no transient file it created
\* remains on storage.
C2_NoTransientFileRemains ==
    \A r \in RunIds : Delivered(runs[r]) => files = {}

\* C3: a failure is the last thing a run does: once step k has failed nothing
\* more is imported, invoked, exported, bound or retried, and what the run
\* realized belongs to steps up to k.
C3_FailFast ==
    \A r \in RunIds :
       LET st == runs[r] IN
       /\ \A p \in 1..Len(st.log) :
             st.log[p].ev = "fail" =>
                /\ p = Len(st.log)
                /\ st.pc = "threw"
                /\ st.i = st.log[p].step
       /\ st.pc = "threw" =>
             /\ \A p \in 1..Len(st.realized) : st.realized[p].step <= st.i
             /\ \A p \in 1..Len(st.outputs) : st.outputs[p].step <= st.i
             /\ \A p \in 1..Len(st.log) : st.log[p].step <= st.i

\* A run whose step k failed while later steps were still to come.
C3_Witness ==
    /\ runs[1].pc = "threw"
    /\ runs[1].i >= 1
    /\ runs[1].i + 1 < Len(runs[1].doc.steps)
    /\ runs[1].log[Len(runs[1].log)].ev = "fail"

\* The engine invocations of a log that have not settled.
InFlight(log) ==
    Cardinality({p \in 1..Len(log) : log[p].ev = "invoke"})
    - Cardinality({p \in 1..Len(log) : log[p].ev = "invoked"})

\* C4: steps run in declared order, one at a time: step j begins only right
\* after step j-1 has ended, with every engine invocation of the earlier
\* steps settled and their bindings and vars updates applied; at most one
\* engine invocation is in flight.
C4_StepsSequential ==
    \A r \in RunIds :
       LET st == runs[r]
           log == st.log
       IN
       /\ InFlight(log) \in {0, 1}
       /\ \A q \in 1..Len(log) :
             /\ q > 1 => log[q - 1].step <= log[q].step
             /\ log[q].ev = "begin" =>
                   IF log[q].step = 0
                   THEN q = 1 \/ log[q - 1].ev = "imported"
                   ELSE /\ log[q - 1].ev = "end"
                        /\ log[q - 1].step = log[q].step - 1
                        /\ InFlight(SubSeq(log, 1, q - 1)) = 0
       /\ (st.pc \notin {"idle", "import"} /\ st.i >= 0
           /\ st.result.message \notin {"Invalid pipeline", "TypeError"}) =>
             \A j \in 1..st.i :
                j <= Len(st.doc.steps) =>
                   LET step == st.doc.steps[j] IN
                   /\ (step.op \notin {"measure", "export"}
                       /\ Truthy(step.out)) => step.out \in DOMAIN st.images
                   /\ step.op = "measure" => st.vars["trimW"] # Undef

\* Step 1 has its engine invocation in flight after step 0 bound its output.
C4_Witness ==
    /\ runs[1].pc = "invoke"
    /\ runs[1].i = 1
    /\ \E p \in 1..Len(runs[1].log) : runs[1].log[p].ev = "bind"

\* The names visible before the step at 1-based position k: the input names
\* and the out of every earlier step.
VisibleBefore(doc, k) ==
    {doc.inputs[n].name : n \in 1..Len(doc.inputs)}
    \cup {Field(doc.steps[j], "out") : j \in 1..(k - 1)}

WellShaped(doc) ==
    doc.js = "object" /\ doc.inputsKind = "object" /\ doc.stepsKind = "array"

\* C5: a document in which some step's source field holds a value that is
\* neither an input name nor the out of an earlier step is returned invalid.
C5_ForwardReferenceRejected ==
    (vres.status = "returned" /\ WellShaped(vdoc)) =>
       \A k \in 1..Len(vdoc.steps) :
          \A f \in {"src", "base", "overlay", "mask"} :
             LET v == Field(vdoc.steps[k], f) IN
             (v # Undef /\ v \notin VisibleBefore(vdoc, k)) => ~vres.valid

\* C6: a document in which some step's out equals an input name or the out of
\* an earlier step is returned invalid, with an error that carries the index
\* of the colliding step.
C6_OutCollisionRejected ==
    (vres.status = "returned" /\ WellShaped(vdoc)) =>
       \A k \in 1..Len(vdoc.steps) :
          LET v == Field(vdoc.steps[k], "out") IN
          (v # Undef /\ v \in VisibleBefore(vdoc, k)) =>
             /\ ~vres.valid
             /\ \E e \in 1..Len(vres.errors) : vres.errors[e].step = k - 1

\* C7: validatePipeline returns a result for every document; it never raises.
C7_ValidateNeverRaises == vres.status # "threw"

\* C8: a run on a document the validator does not accept is aborted with the
\* validator's error list, before anything is imported, invoked, exported or
\* written.
C8_InvalidAbortsWithValidatorErrors ==
    \A r \in RunIds :
       LET st == runs[r]
           v == validatePipeline(st.doc)
       IN (st.pc # "idle" /\ ~(v.status = "returned" /\ v.valid)) =>
             /\ st.pc = "threw"
             /\ st.result.message = "Invalid pipeline"
             /\ st.result.errors = v.errors
             /\ st.log = << >> /\ st.cleanups = << >> /\ st.outputs = << >>
             /\ DOMAIN st.images = {}
             /\ files = {}

\* C9: a loadProfile call that finds an entry younger than ttl returns that
\* entry's document object, fetches nothing and leaves the Map alone; one that
\* finds an entry of age ttl or more evicts it and starts exactly one fetch;
\* when a fetching call returns, the entry holds the fetched document with
\* the time of that moment; no call ever fetches again.
C9_Step ==
    \A c \in LoadIds :
       LET key == CacheKey(loads'[c].source) IN
       /\ (loads[c].pc = "idle" /\ loads'[c].pc # "idle"
           /\ Has(profileCache, key)) =>
             IF now - Lookup(profileCache, key).timestamp < loads'[c].ttl
             THEN /\ loads'[c].pc = "returned"
                  /\ loads'[c].result = Lookup(profileCache, key).profile
                  /\ loads'[c].fetches = 0
                  /\ profileCache' = profileCache
             ELSE /\ ~Has(profileCache', key)
                  /\ loads'[c].pc = "fetching"
                  /\ loads'[c].fetches = 1
       /\ (loads[c].pc = "fetching" /\ loads'[c].pc = "returned") =>
             /\ Has(profileCache', key)
             /\ Lookup(profileCache', key).timestamp = now
             /\ Lookup(profileCache', key).profile = loads'[c].result
       /\ loads[c].pc # "idle" => loads'[c].fetches = loads[c].fetches

C9_CacheTtl == [][C9_Step]_vars

\* A call found an expired entry, evicted it, fetched once and stored the
\* document under the time of its return.
C9_Witness ==
    \E c \in LoadIds :
       /\ loads[c].pc = "returned"
       /\ loads[c].evicted
       /\ loads[c].fetches = 1
       /\ Has(profileCache, CacheKey(loads[c].source))
       /\ Lookup(profileCache, CacheKey(loads[c].source)).timestamp = now
       /\ Lookup(profileCache, CacheKey(loads[c].source)).profile
             = loads[c].result

ValidProfile(doc) ==
    validateProfile(doc).status = "returned" /\ validateProfile(doc).valid

Active(st) == st.pc \notin {"idle", "returned", "threw"}

\* The transient paths a run has made so far: the registered ones and the one
\* an import or engine invocation in flight is writing.
Artifacts(st) ==
    {st.cleanups[c] : c \in DOMAIN st.cleanups}
    \cup (IF st.pc \in {"import", "invoke", "encode", "trim", "identifyTrim"}
          THEN {st.tmp} ELSE {})

\* C11: two runs in progress at the same time never have a transient path in
\* common, and every path bound in the symbol table of a run in progress is
\* still on storage (no other run's release action deleted it).
C11_PathsNeverShared ==
    /\ \A r, s \in RunIds :
          (r # s /\ Active(runs[r]) /\ Active(runs[s])) =>
             Artifacts(runs[r]) \cap Artifacts(runs[s]) = {}
    /\ \A r \in RunIds :
          Active(runs[r]) =>
             \A n \in DOMAIN runs[r].images : runs[r].images[n] \in files

\* The variables run r's code reads under the name vars.
View(r) == heap[VarsObject(r)]

Measured == {"w", "h", "trimW", "trimH"}

\* C12: no step of any run changes the caller's params object or a started
\* run's document; a step of one run changes neither the vars nor the symbol
\* table of another run; and the measured variables a run sees are the ones
\* its own measure step wrote.
C12_Step ==
    /\ heap'[ParamsObject] = heap[ParamsObject]
    /\ \A r \in RunIds :
          /\ runs[r].pc # "idle" => runs'[r].doc = runs[r].doc
          /\ (runs[r].k > 0 /\ runs'[r] = runs[r]) =>
                /\ View(r)' = View(r)
                /\ runs'[r].images = runs[r].images
          /\ runs'[r].k > 0 =>
                \A v \in Measured :
                   (View(r)')[v] # Undef =>
                      \E p \in 1..Len(runs'[r].log) : runs'[r].log[p].ev = "vars"

C12_RunsIsolated == [][C12_Step]_vars

\* One run has measured while the other, given the same params object, is in
\* progress and sees none of it.
C12_Witness ==
    /\ View(1)["trimW"] # Undef
    /\ Active(runs[2]) /\ runs[2].k > 0
    /\ View(2)["trimW"] = Undef
    /\ heap[ParamsObject]["trimW"] = Undef
    /\ heap[ParamsObject]["runId"] = View(2)["runId"]

\* C13: every run that was called eventually returns a result or fails, even
\* when the engine hangs on an invocation.
C13_RunsTerminate == (runs[1].pc # "idle") ~> Delivered(runs[1])

\* A step that is a call of clearProfileCache.
ClearStep == admin'.op = "clear" /\ loads' = loads /\ now' = now

\* C14: the count clearProfileCache reports is the number of entries the
\* call removed.
C14_Step ==
    ClearStep => admin'.cleared = Len(profileCache) - Len(profileCache')

C14_ClearCountsRemoved == [][C14_Step]_vars

\* A step that is a call of listCachedProfiles.
ListStep == admin'.op = "list" /\ loads' = loads /\ now' = now

Entries(cache) == {cache[n] : n \in 1..Len(cache)}

\* C15: clearProfileCache with a descriptor removes the entry under that
\* descriptor's key, if there is one, and leaves every other entry as it was;
\* listCachedProfiles changes no entry.
C15_Step ==
    /\ (ClearStep /\ Truthy(admin'.source)) =>
          /\ Entries(profileCache') =
                {e \in Entries(profileCache) : e.key # CacheKey(admin'.source)}
          /\ Len(profileCache') = Cardinality(Entries(profileCache'))
    /\ ListStep => profileCache' = profileCache

C15_ClearRemovesOnlyItsKey == [][C15_Step]_vars

\* A descriptor's entry was cleared while the entry of another key stayed.
C15_Witness ==
    /\ admin.op = "clear" /\ Truthy(admin.source)
    /\ ~Has(profileCache, CacheKey(admin.source))
    /\ Len(profileCache) >= 1
    /\ \E c \in LoadIds :
          /\ loads[c].pc = "returned" /\ loads[c].fetches = 1
          /\ loads[c].source = admin.source

\* Load c raises in this step.
Raises(c) == loads[c].pc # "threw" /\ loads'[c].pc = "threw"

OthersUnchanged(key) ==
    {e \in Entries(profileCache') : e.key # key}
       = {e \in Entries(profileCache) : e.key # key}

\* C16, as the specification words it: once a load has raised, the Map holds
\* no entry under its key, and the entries under other keys are unchanged.
C16_FailedLoadLeavesNoEntry ==
    [][\A c \in LoadIds :
          Raises(c) =>
             /\ ~Has(profileCache', CacheKey(loads'[c].source))
             /\ OthersUnchanged(CacheKey(loads'[c].source))]_vars

\* C16, amended: a load that raises stores and restores nothing (a refused
\* source leaves its key without entry, a failed fetch or validation leaves
\* the Map as it is, with an entry under the key only if another load put it
\* there meanwhile), and whatever entry appears in the Map is the validated
\* document of a load that returns in that step.
C16_Step ==
    /\ \A c \in LoadIds :
          Raises(c) =>
             LET key == CacheKey(loads'[c].source) IN
             /\ OthersUnchanged(key)
             /\ Entries(profileCache') \subseteq Entries(profileCache)
             /\ loads[c].pc = "idle" => ~Has(profileCache', key)
             /\ loads[c].pc = "fetching" => profileCache' = profileCache
    /\ \A e \in Entries(profileCache') \ Entries(profileCache) :
          \E c \in LoadIds :
             /\ loads[c].pc = "fetching" /\ loads'[c].pc = "returned"
             /\ e.key = CacheKey(loads[c].source)
             /\ e.profile = loads'[c].result
             /\ ValidProfile(e.profile.doc)

C16_FailedLoadStoresNothing == [][C16_Step]_vars

\* A load evicted an expired entry, its refetch failed, and its key is left
\* without entry.
C16_Witness ==
    \E c \in LoadIds :
       /\ loads[c].pc = "threw" /\ loads[c].evicted
       /\ loads[c].error \in {"fetch failed", "Invalid profile", "TypeError"}
       /\ ~Has(profileCache, CacheKey(loads[c].source))

\* C17: while a run is inside a measure step its symbol table does not
\* change and no variable other than w, h, trimW, trimH changes; the step
\* writes those four, all at once when it completes, and its out is bound to
\* nothing.
C17_Step ==
    \A r \in RunIds :
       runs[r].pc \in {"identify", "trim", "identifyTrim"} =>
          /\ runs'[r].images = runs[r].images
          /\ \A v \in VarNames \ Measured :
                runs'[r].vars[v] = runs[r].vars[v]
          /\ IF runs'[r].i > runs[r].i
             THEN /\ runs[r].pc = "identifyTrim"
                  /\ runs'[r].vars["w"] = runs[r].dims[1]
                  /\ runs'[r].vars["h"] = runs[r].dims[2]
                  /\ <<runs'[r].vars["trimW"], runs'[r].vars["trimH"]>>
                        \in TrimDims
                  /\ runs[r].doc.steps[runs[r].i + 1].out
                        \notin DOMAIN runs'[r].images
             ELSE \A v \in Measured : runs'[r].vars[v] = runs[r].vars[v]

C17_MeasureWritesFourVars == [][C17_Step]_vars

\* A run returned after a measure step that declared out "m": the four
\* variables are written, runId is as given, and no "m" is bound.
C17_Witness ==
    /\ runs[1].pc = "returned"
    /\ \E j \in 1..Len(runs[1].doc.steps) :
          runs[1].doc.steps[j].op = "measure" /\ runs[1].doc.steps[j].out = "m"
    /\ \A v \in Measured : runs[1].vars[v] # Undef
    /\ runs[1].vars["runId"] = "r7"
    /\ "m" \notin DOMAIN runs[1].images

\* The 0-based indices below n of the export steps of a document.
ExportsBelow(doc, n) ==
    {j \in 0..(n - 1) : j < Len(doc.steps) /\ doc.steps[j + 1].op = "export"}

\* C18: at every moment of a run, outputs holds one result for each export
\* step that has completed (those before the current step), in declared
\* order, and nothing else; so a returned run has one per export step.
C18_OneOutputPerExport ==
    \A r \in RunIds :
       LET st == runs[r]
           done == IF st.i < 0 THEN {} ELSE ExportsBelow(st.doc, st.i)
       IN
       /\ {st.outputs[p].step : p \in 1..Len(st.outputs)} = done
       /\ Len(st.outputs) = Cardinality(done)
       /\ \A p \in 1..Len(st.outputs) :
             \A q \in 1..Len(st.outputs) :
                p < q => st.outputs[p].step < st.outputs[q].step
       /\ st.pc = "returned" => st.i = Len(st.doc.steps)

\* A returned run with two export steps and a step that is no export.
C18_Witness ==
    /\ runs[1].pc = "returned"
    /\ Len(runs[1].outputs) = 2
    /\ \E j \in 1..Len(runs[1].doc.steps) :
          runs[1].doc.steps[j].op \notin {"export", "measure"}

\* How many engine invocations of kind what step j of a run has started.
Invocations(st, j, what) ==
    Cardinality({p \in 1..Len(st.log) :
                   /\ st.log[p].ev = "invoke"
                   /\ st.log[p].step = j
                   /\ st.log[p].what \in what})

EngineCalls == {"op", "encode", "identify", "trim", "identifyTrim"}

\* C19: of every completed step: a step that is neither measure nor export
\* made one engine invocation, with the builder's input paths, then its args,
\* then an output path no earlier token or step used; an export made one
\* re-encode invocation if it has `as` and none otherwise; a measure made two
\* identify probes (with its one trim between them).
C19_InvocationsPerStep ==
    \A r \in RunIds :
       LET st == runs[r] IN
       \A j \in 0..(st.i - 1) :
          LET step == st.doc.steps[j + 1] IN
          CASE step.op = "export" ->
                 /\ Invocations(st, j, {"encode"})
                       = (IF Truthy(step.as) THEN 1 ELSE 0)
                 /\ Invocations(st, j, EngineCalls \ {"encode"}) = 0
            [] step.op = "measure" ->
                 /\ Invocations(st, j, {"identify"}) = 1
                 /\ Invocations(st, j, {"identifyTrim"}) = 1
                 /\ Invocations(st, j, {"trim"}) = 1
                 /\ Invocations(st, j, {"op", "encode"}) = 0
            [] OTHER ->
                 /\ Invocations(st, j, {"op"}) = 1
                 /\ Invocations(st, j, EngineCalls \ {"op"}) = 0
                 /\ \E p \in 1..Len(st.realized) :
                       LET tok == st.realized[p].what
                           n == Len(BuilderRefs(step))
                       IN
                       /\ st.realized[p].step = j
                       /\ st.realized[p].ev = step.op
                       /\ Len(tok) = n + 2
                       /\ \A k \in 1..n :
                             tok[k] = st.images[step[BuilderRefs(step)[k]]]
                       /\ tok[n + 1] = <<"args", step.op>>
                       /\ tok[n + 2].kind = "step" /\ tok[n + 2].idx = j
                       /\ \A k \in 1..n : tok[k] # tok[n + 2]
                       /\ \A q \in 1..Len(st.realized) :
                             (q # p /\ st.realized[q].step >= 0
                              /\ st.realized[q].ev \notin {"export", "measure"})
                                => st.realized[q].what[
                                      Len(st.realized[q].what)] # tok[n + 2]

\* A returned run that had a measure step, an export with `as` and a step
\* of two inputs.
C19_Witness ==
    /\ runs[1].pc = "returned"
    /\ \E j \in 1..Len(runs[1].doc.steps) :
          runs[1].doc.steps[j].op = "measure"
    /\ \E j \in 1..Len(runs[1].doc.steps) :
          runs[1].doc.steps[j].op = "export" /\ Truthy(runs[1].doc.steps[j].as)
    /\ \E j \in 1..Len(runs[1].doc.steps) :
          runs[1].doc.steps[j].op = "maskAlpha"

\* The steps of a document that are neither measure nor export and have a
\* truthy out.
BindingSteps(doc) ==
    {j \in 1..Len(doc.steps) :
       /\ doc.steps[j].op \notin {"export", "measure"}
       /\ Truthy(doc.steps[j].out)}

\* C20: a returned run reports as stepsExecuted the number of declared
\* steps, measure and export included, and as imagesProcessed the size of
\* its symbol table, which is the number of inputs plus the number of steps
\* other than measure and export that have an out.
C20_StatsCountStepsAndImages ==
    \A r \in RunIds :
       LET st == runs[r] IN
       st.pc = "returned" =>
          /\ st.result.stepsExecuted = Len(st.doc.steps)
          /\ st.result.imagesProcessed = Cardinality(DOMAIN st.images)
          /\ st.result.imagesProcessed
                = Len(st.doc.inputs) + Cardinality(BindingSteps(st.doc))

\* A returned run of two inputs and three steps: a measure that names an
\* out, a step without an out and one step that binds.
C20_Witness ==
    /\ runs[1].pc = "returned"
    /\ Len(runs[1].doc.inputs) = 2
    /\ runs[1].result.stepsExecuted = 3
    /\ runs[1].result.imagesProcessed = 3
    /\ \E j \in 1..3 : /\ runs[1].doc.steps[j].op = "measure"
                       /\ Truthy(runs[1].doc.steps[j].out)
    /\ \E j \in 1..3 : /\ runs[1].doc.steps[j].op = "trimRepage"
                       /\ ~Truthy(runs[1].doc.steps[j].out)

\* An input spec of a recognized kind: a literal HTTP(S) URL, a type name or
\* an object that declares a known type.
InputRecognized(spec) ==
    spec \in {UrlSpec, TypeNameSpec, ObjS3Spec, ObjBase64Spec, ObjUrlSpec}

IntegerNumerals == {"0", "1", "2", "3", "4"}

\* An aspect of the form integer:integer.
IntegerColonInteger(s) ==
    /\ s # NumberVal
    /\ LET parts == SplitColon(s) IN
       /\ Len(parts) = 2
       /\ parts[1] \in IntegerNumerals
       /\ parts[2] \in IntegerNumerals

\* The step-level contract rules the step at 1-based position k violates,
\* each under the kind of the validator's message for it.
RulesViolated(doc, k) ==
    LET s == doc.steps[k]
        op == Field(s, "op")
        known == op \in OpNames
    IN
    {rule \in {"missing-op", "unknown-op", "missing-field", "unknown-image",
               "out-conflict", "invalid-enum", "invalid-aspect"} :
       CASE rule = "missing-op"    -> op = Undef
         [] rule = "unknown-op"    -> op # Undef /\ ~known
         [] rule = "missing-field" ->
               known /\ \E n \in 1..Len(OPERATIONS(op)) :
                           s[OPERATIONS(op)[n]] = Undef
         [] rule = "unknown-image" ->
               \E n \in 1..Len(SrcFields) :
                  /\ Field(s, SrcFields[n]) # Undef
                  /\ Field(s, SrcFields[n]) \notin VisibleBefore(doc, k)
         [] rule = "out-conflict"  ->
               /\ Field(s, "out") # Undef
               /\ Field(s, "out") \in VisibleBefore(doc, k)
         [] rule = "invalid-enum"  ->
               \/ op = "format" /\ s.format \notin FormatNames
               \/ op = "colorspace" /\ s.space \notin ColorSpaces
               \/ op = "resize" /\ s.mode \notin ResizeModes
         [] OTHER                  ->
               Field(s, "aspect") # Undef
               /\ ~IntegerColonInteger(Field(s, "aspect"))}

AllViolations(doc) ==
    {kr \in (1..Len(doc.steps)) \X
            {"missing-op", "unknown-op", "missing-field", "unknown-image",
             "out-conflict", "invalid-enum", "invalid-aspect"} :
       kr[2] \in RulesViolated(doc, kr[1])}

InputsRecognized(doc) ==
    \A n \in 1..Len(doc.inputs) : InputRecognized(doc.inputs[n].spec)

\* The kinds of message that identify a rule.
MessagesOf(rule) ==
    IF rule = "invalid-enum"
    THEN {"invalid-format", "invalid-colorspace", "invalid-resize-mode"}
    ELSE {rule}

\* C21: whenever validatePipeline returns: a document whose only violation
\* is one step-level rule at one step is returned invalid with a message of
\* that rule that carries the step's index; a document that violates nothing
\* is returned valid with no error.
C21_SingleViolationReported ==
    (vres.status = "returned" /\ WellShaped(vdoc) /\ InputsRecognized(vdoc)) =>
       /\ \A kr \in AllViolations(vdoc) :
             AllViolations(vdoc) = {kr} =>
                /\ ~vres.valid
                /\ \E e \in 1..Len(vres.errors) :
                      /\ vres.errors[e].kind \in MessagesOf(kr[2])
                      /\ vres.errors[e].step = kr[1] - 1
       /\ AllViolations(vdoc) = {} =>
             /\ vres.valid
             /\ vres.errors = NoErrors

\* C23: whenever validatePipeline returns: a document with a step that has
\* an aspect not of the form integer:integer is returned invalid.
C23_MalformedAspectRejected ==
    (vres.status = "returned" /\ WellShaped(vdoc)) =>
       \A k \in 1..Len(vdoc.steps) :
          LET v == Field(vdoc.steps[k], "aspect") IN
          (v # Undef /\ ~IntegerColonInteger(v)) => ~vres.valid

\* C22: for an object-shaped document validatePipeline returns a list that
\* has an error for every unrecognized input and for every step that
\* violates a rule, the errors without a step index first and the step
\* errors by increasing index, and in which no reference to the out of an
\* earlier step, valid or not, is reported unknown.
C22_AllErrorsAccumulated ==
    (vres.status # "pending" /\ WellShaped(vdoc)) =>
       /\ vres.status = "returned"
       /\ \A n \in 1..Len(vdoc.inputs) :
             ~InputRecognized(vdoc.inputs[n].spec) =>
                \E e \in 1..Len(vres.errors) :
                   /\ vres.errors[e].step = -1
                   /\ vres.errors[e].field = vdoc.inputs[n].name
       /\ \A k \in 1..Len(vdoc.steps) :
             RulesViolated(vdoc, k) # {} =>
                \E e \in 1..Len(vres.errors) : vres.errors[e].step = k - 1
       /\ \A e1, e2 \in 1..Len(vres.errors) :
             e1 < e2 => vres.errors[e1].step <= vres.errors[e2].step
       /\ \A k \in 1..Len(vdoc.steps) :
             \A e \in 1..Len(vres.errors) :
                (vres.errors[e].kind = "unknown-image"
                 /\ vres.errors[e].step = k - 1)
                   => vres.errors[e].value \notin VisibleBefore(vdoc, k)

\* The enum field of an op that has one, and its value set.
EnumOf(op) ==
    CASE op = "format"     -> [field |-> "format", kind |-> "invalid-format",
                               values |-> FormatNames]
      [] op = "colorspace" -> [field |-> "space", kind |-> "invalid-colorspace",
                               values |-> ColorSpaces]
      [] op = "resize"     -> [field |-> "mode", kind |-> "invalid-resize-mode",
                               values |-> ResizeModes]

\* The enum errors of the result that carry index i.
EnumErrorsAt(res, i) ==
    {e \in 1..Len(res.errors) :
       /\ res.errors[e].step = i
       /\ res.errors[e].kind \in {"invalid-format", "invalid-colorspace",
                                  "invalid-resize-mode"}}

\* C24: a document with a format, colorspace or resize step whose enum value
\* is outside the op's value set is never returned valid, and the returned
\* list has the enum error of that step; a step gets an enum error only for
\* its own op's field and only when the value is outside the set.
C24_EnumsChecked ==
    (vres.status # "pending" /\ WellShaped(vdoc)) =>
       \A k \in 1..Len(vdoc.steps) :
          LET s == vdoc.steps[k]
              op == Field(s, "op")
          IN
          /\ (op \in {"format", "colorspace", "resize"}
              /\ s[EnumOf(op).field] \notin EnumOf(op).values) =>
                /\ ~vres.valid
                /\ vres.status = "returned" =>
                      \E e \in EnumErrorsAt(vres, k - 1) :
                         /\ vres.errors[e].kind = EnumOf(op).kind
                         /\ vres.errors[e].value = s[EnumOf(op).field]
          /\ \A e \in EnumErrorsAt(vres, k - 1) :
                /\ op \in {"format", "colorspace", "resize"}
                /\ vres.errors[e].kind = EnumOf(op).kind
                /\ s[EnumOf(op).field] \notin EnumOf(op).values

\* A returned list for a resize step of mode "crop" followed by a format step
\* of format "jpg".
C24_Witness ==
    /\ vres.status = "returned"
    /\ WellShaped(vdoc)
    /\ Len(vdoc.steps) = 2
    /\ vdoc.steps[1].op = "resize" /\ vdoc.steps[1].mode = "crop"
    /\ vdoc.steps[2].op = "format" /\ vdoc.steps[2].format = "jpg"
    /\ EnumErrorsAt(vres, 0) # {}
    /\ EnumErrorsAt(vres, 1) = {}

\* The names and the calls of an expression, occurrence by occurrence: a
\* word followed by "(" is a call, any other word is a name.
OccurrencesAllowed(tokens) ==
    \A p \in 1..Len(tokens) :
       IsWord(tokens[p]) =>
          IF p < Len(tokens) /\ tokens[p + 1] = "("
          THEN tokens[p] \in ALLOWED_FUNCS
          ELSE tokens[p] \in ALLOWED_VARS

\* Every closing parenthesis closes an open one and none stays open.
Nesting(tokens, p) ==
    Cardinality({q \in 1..p : tokens[q] = "("})
       - Cardinality({q \in 1..p : tokens[q] = ")"})

\* C25: an expression parseExpression accepts has balanced parentheses, and
\* each occurrence of a word in it is an allowed function when "(" follows
\* it and an allowed variable otherwise.
C25_ParseAcceptsOnlyAllowed ==
    (call.fn = "parseExpression" /\ ret.status = "returned" /\ ret.valid) =>
       LET tokens == Tokens(call.arg) IN
       /\ \A p \in 1..Len(tokens) : Nesting(tokens, p) >= 0
       /\ Nesting(tokens, Len(tokens)) = 0
       /\ OccurrencesAllowed(tokens)

\* The variables an expression refers to.
Referenced(expr) ==
    {expr[p] : p \in 1..Len(expr)} \cap ALLOWED_VARS

\* The expression of the example and its bindings.
ExampleExpr == <<"max", "(", "padW", ",", " ", "padH", "*", "1.3333", ")">>

\* C26: for an expression parseExpression accepts, evaluateExpression
\* returns the rounded arithmetic value as a number when every variable the
\* expression refers to is bound (120 for the example with padW 100 and padH
\* 90), and the expression without its white space as a formula when one is
\* not.
C26_TwoPhaseEvaluation ==
    (call.fn = "evaluateExpression" /\ ret.status # "pending"
     /\ parseExpression(call.arg).valid) =>
       IF \A v \in Referenced(call.arg) : EnvGet(call.env, v) # Undef
       THEN /\ ret.status = "returned"
            /\ ret.type = "number"
            /\ JsEval(SelectSeq(call.arg, LAMBDA x : x # " "), call.env).ok
            /\ ret.n = MathRound(JsEval(SelectSeq(call.arg,
                                                   LAMBDA x : x # " "),
                                        call.env).v)
            /\ (call.arg = ExampleExpr /\ call.env.padW = "100"
                /\ call.env.padH = "90") => ret.n = 120
       ELSE /\ ret.status = "returned"
            /\ ret.type = "fx"
            /\ ret.formula = SelectSeq(call.arg, LAMBDA x : x # " ")

BuildStep ==
    call.fn = "buildOperation" /\ ret.status = "pending"
    /\ ret'.status # "pending"

\* C28: a call of buildOperation leaves the step, the symbol table and vars
\* as they were, touches no file and starts no engine invocation, and the
\* descriptor it returned is the one a second call on the same arguments
\* returns: the same inputs and the same args, in the same order.
C28_Step ==
    BuildStep =>
       /\ call' = call
       /\ files' = files
       /\ runs' = runs
       /\ heap' = heap
       /\ ret'.status = "returned" =>
             /\ ret'.inputs
                   = buildOperation(call'.arg, call'.env.images).inputs
             /\ ret'.args = BuilderArgs(call'.arg)
             /\ BuildFailure(call'.arg, call'.env.images).kind = "none"

RECURSIVE Substituted(_, _, _)
Substituted(template, obj, p) ==
    IF p > Len(template) THEN << >>
    ELSE (IF template[p] \in Placeholders
             /\ Captured(template[p]) \in DOMAIN obj
             /\ obj[Captured(template[p])].def
          THEN obj[Captured(template[p])].str
          ELSE <<template[p]>>)
         \o Substituted(template, obj, p + 1)

\* C29: substituteVars returns a template that is not a string as it is, and
\* a string with each placeholder of a bound identifier replaced by the
\* value, a placeholder in the value included as written, and each
\* placeholder of an absent identifier as written.
C29_SinglePassSubstitution ==
    (call.fn = "substituteVars" /\ ret.status = "returned") =>
       ret.value = IF call.arg = NotAString THEN NotAString
                   ELSE Substituted(call.arg, call.env, 1)

\* The names validatePipeline holds as visible when it reaches the step of
\* 0-based index n.
RECURSIVE VisibleAt(_, _)
VisibleAt(doc, n) ==
    IF n = 0 THEN InputKeys(doc)
    ELSE ImagesAfter(doc.steps[n], VisibleAt(doc, n - 1))

\* C30: in a run on a document validatePipeline accepts, the symbol table
\* holds, at each step, every name the validator held visible at that step,
\* and no step throws for a missing symbol.
C30_ValidatorExecutorAgree ==
    \A r \in RunIds :
       LET st == runs[r]
           v == validatePipeline(st.doc)
       IN
       (st.pc # "idle" /\ v.status = "returned" /\ v.valid) =>
          /\ (st.i >= 0 /\ st.i < Len(st.doc.steps)) =>
                VisibleAt(st.doc, st.i) \subseteq DOMAIN st.images
          /\ st.pc = "threw" =>
                st.result.message \notin {"missing", "missing src"}

\* ------------------------------------ padToAspect's arithmetic (operations)

\* a / b for numbers of ten-thousandths, by quotient and remainder to stay
\* within 32 bits.
Over(a, b) == (a \div b) * Scale + ((a % b) * Scale) \div b

\* `step.padPct || 0`
PadPct(padPct) ==
    CASE padPct = "0.06" -> 600
      [] padPct = "0.5"  -> Scale \div 2
      [] OTHER           -> 0

\* `1 / (1 - padPct)`
PadFactor(padPct) == Over(Scale, Scale - PadPct(padPct))

\* `w / h` of `step.aspect.split(':').map(Number)`
AspectRatio(aspect) ==
    CASE aspect = "3:4" -> Over(3 * Scale, 4 * Scale)
      [] aspect = "2:1" -> Over(2 * Scale, 1 * Scale)

Max(a, b) == IF a >= b THEN a ELSE b

\* The number an emitted %[fx:...] setting gives the engine, under the
\* options set before it: the builder has interpolated padFactor, or
\* aspectRatio, into the expression.
Fx(arg, opt) ==
    CASE arg[1] = "%[fx:trimW/padFactor]" ->
           Over(opt.trimW, PadFactor(arg[2]))
      [] arg[1] = "%[fx:trimH/padFactor]" ->
           Over(opt.trimH, PadFactor(arg[2]))
      [] arg[1] = "%[fx:max(padW,padH*aspectRatio)]" ->
           Max(opt.padW, Times(opt.padH, AspectRatio(arg[2])))
      [] arg[1] = "%[fx:targetW/aspectRatio]" ->
           Over(opt.targetW, AspectRatio(arg[2]))

\* The options the -set arguments of a padToAspect descriptor leave, for a
\* trimmed image of w by h pixels: each later setting reads the earlier ones.
Options(args, w, h) ==
    LET o1 == [trimW |-> w * Scale, trimH |-> h * Scale]
        o2 == [trimW |-> o1.trimW, trimH |-> o1.trimH,
               padW |-> Fx(args[9], o1), padH |-> Fx(args[12], o1)]
        o3 == [trimW |-> o2.trimW, trimH |-> o2.trimH,
               padW |-> o2.padW, padH |-> o2.padH,
               targetW |-> Fx(args[15], o2)]
    IN [trimW |-> o3.trimW, trimH |-> o3.trimH,
        padW |-> o3.padW, padH |-> o3.padH,
        targetW |-> o3.targetW, targetH |-> Fx(args[18], o3)]

\* The trimmed sizes, in pixels, the emitted arithmetic is tried on.
TrimSizes == {1, 40, 100}

\* C31: the descriptor padToAspect returns sets padW = trimW / (1 - padPct)
\* and padH = trimH / (1 - padPct), so the padded size is never smaller
\* than the trimmed one, and targetW = max(padW, padH * aspectRatio),
\* targetH = targetW / aspectRatio.
C31_PadNeverShrinks ==
    (call.fn = "buildOperation" /\ ret.status = "returned"
        /\ call.arg.op = "padToAspect") =>
       \A w \in TrimSizes, h \in TrimSizes :
          LET o == Options(ret.args, w, h)
              pct == PadPct(call.arg.padPct)
              ratio == AspectRatio(call.arg.aspect)
          IN /\ o.padW = Over(o.trimW, Scale - pct)
             /\ o.padH = Over(o.trimH, Scale - pct)
             /\ o.padW >= o.trimW
             /\ o.padH >= o.trimH
             /\ o.targetW = Max(o.padW, Times(o.padH, ratio))
             /\ o.targetH = Over(o.targetW, ratio)

\* C32: a run on a document validatePipeline accepts never fails at import
\* with the unsupported-spec error: every input spec the validator accepts
\* is one importImage resolves.
C32_ValidatedInputsImport ==
    \A r \in RunIds :
       LET st == runs[r]
           v == validatePipeline(st.doc)
       IN
       (st.pc = "threw" /\ v.status = "returned" /\ v.valid) =>
          st.result.message # "Unsupported import spec"

\* C33: a run on a document validatePipeline accepts never fails with the
\* invalid-aspect error of the padToAspect builder: every aspect the
\* validator accepts is one the builder accepts.
C33_ValidatedAspectBuilds ==
    \A r \in RunIds :
       LET st == runs[r]
           v == validatePipeline(st.doc)
       IN
       (st.pc = "threw" /\ v.status = "returned" /\ v.valid) =>
          st.result.message # "invalid-aspect"

\* The errors importImage raises.
ImportFailures == {"import failed", "Unsupported import spec"}

\* The import of an input of the run has failed.
ImportFailed(st) ==
    \E p \in 1..Len(st.log) :
       st.log[p].ev = "fail" /\ st.log[p].what \in ImportFailures

\* C34: when the import of the k-th input has failed, the error has reached
\* the caller with the release actions of inputs 1..k-1 executed and their
\* files gone, no step was entered and no engine invocation was made.
C34_ImportFailureReleases ==
    \A r \in RunIds :
       LET st == runs[r] IN
       ImportFailed(st) =>
          /\ st.pc = "threw"
          /\ st.result.message \in ImportFailures
          /\ Len(st.cleanups) = st.k - 1
          /\ Len(st.realized) = st.k - 1
          /\ \A c \in DOMAIN st.cleanups :
                st.released[c] = 1 /\ st.cleanups[c] \notin files
          /\ st.i = -1
          /\ \A p \in 1..Len(st.log) :
                st.log[p].ev \notin {"begin", "invoke", "call"}
          /\ st.log[Len(st.log)].ev = "fail"

\* The download of the second input failed after the first was imported.
C34_Witness ==
    /\ runs[1].pc = "threw"
    /\ runs[1].result.message = "import failed"
    /\ runs[1].k = 2
    /\ Len(runs[1].cleanups) = 1
    /\ runs[1].released = <<1>>
    /\ Len(runs[1].doc.steps) >= 1

\* clearProfileCache has just returned, having invalidated the key of
\* activation c, and the document of identity id had been served to c before
\* and waits to be delivered.
InvalidatedInFlight(c, id) ==
    /\ admin.op = "clear"
    /\ ~Truthy(admin.source)
          \/ CacheKey(admin.source) = CacheKey(loads[c].source)
    /\ loads[c].pc = "answered"
    /\ loads[c].result.id = id

\* The cache holds the document of identity id.
Holds(id) ==
    \E n \in 1..Len(profileCache) : profileCache[n].profile.id = id

\* C35: once clearProfileCache has returned for a key (or for all), the
\* cache never again holds for that key a document that was fetched before
\* the invalidation, even if a load of the key was in flight then: the step
\* that follows the invalidation does not put such a document there.
C35_Step ==
    \A c \in LoadIds : \A id \in 1..MaxLoads :
       InvalidatedInFlight(c, id) => ~Holds(id)'

C35_InvalidationBeatsInFlight == [][C35_Step]_vars

\* The names a step of run r binds: those of the symbol table after it that
\* were not in it before.
NewNames(r) == (DOMAIN runs'[r].images) \ (DOMAIN runs[r].images)

\* The step completes the engine invocation of a builder step of run r.
BuilderStepEnds(r) ==
    /\ runs[r].pc = "invoke"
    /\ Len(runs'[r].log) > Len(runs[r].log)
    /\ runs'[r].log[Len(runs[r].log) + 1].ev = "invoked"

\* C36 for one step of a run on a document validatePipeline accepts: every
\* binding is kept as it is, at most one name is bound, a builder step with
\* an out that completes binds that name, new, and nothing else does but
\* the import of an input, which binds the input's name.
C36_Step ==
    \A r \in RunIds :
       LET st == runs[r]
           v == validatePipeline(st.doc)
       IN
       (st.pc \notin {"idle", "returned", "threw"}
           /\ v.status = "returned" /\ v.valid) =>
          /\ \A n \in DOMAIN st.images :
                n \in DOMAIN runs'[r].images
                   /\ runs'[r].images[n] = st.images[n]
          /\ IF BuilderStepEnds(r)
             THEN LET step == st.doc.steps[st.i + 1] IN
                  IF step.out # Undef
                  THEN /\ step.out \notin DOMAIN st.images
                       /\ NewNames(r) = {step.out}
                       /\ runs'[r].images[step.out] = st.tmp
                  ELSE NewNames(r) = {}
             ELSE IF st.pc = "import" /\ runs'[r].k > st.k
             THEN NewNames(r) = {st.doc.inputs[st.k].name}
             ELSE NewNames(r) = {}

\* C36: during a run of a validated pipeline the symbol table only grows:
\* no binding is changed or removed, and each builder step with an out
\* binds exactly that one new name.
C36_SymbolTableGrows == [][C36_Step]_vars

\* The documents of the cache, by the identity of their objects.
CachedAs(cache, id) ==
    {cache[n].profile.doc : n \in {m \in 1..Len(cache) :
                                     cache[m].profile.id = id}}

\* C37 for one step: a cached document stays as it is, a document enters the
\* cache as its origin served it, a cache hit gives the cached document, a
\* run is made on the loaded document with the request's inputs in place of
\* its own, and a request for another name than the document's runs nothing.
C37_Step ==
    /\ \A id \in 1..fetched :
          CachedAs(profileCache, id) # {} =>
             CachedAs(profileCache', id) \subseteq CachedAs(profileCache, id)
    /\ \A n \in 1..Len(profileCache') :
          profileCache'[n].profile.doc \in OriginAnswers
    /\ \A q \in RunIds :
          /\ (loads[q].pc = "idle" /\ loads'[q].pc = "returned") =>
                \E n \in 1..Len(profileCache) :
                   /\ profileCache[n].key = CacheKey(loads'[q].source)
                   /\ profileCache[n].profile = loads'[q].result
          /\ runs'[q].pc # "idle" =>
                /\ reqs'[q].profile.doc.name = reqs'[q].profileName
                /\ runs'[q].doc
                      = [reqs'[q].profile.doc EXCEPT !.inputs = reqs'[q].inputs]
          /\ (reqs'[q].pc = "responded"
                 /\ reqs'[q].profile.id > 0
                 /\ reqs'[q].profile.doc.name # reqs'[q].profileName) =>
                /\ runs'[q] = IdleRun
                /\ reqs[q].pc # "responded" => (runs' = runs /\ files' = files)

\* C37: running a profile leaves the cached profile as it was stored: the
\* run is made on a new pipeline with the request's inputs, a later cache
\* hit gives the document with the name, inputs and steps it was stored
\* with, and a request whose profile name is not the document's executes
\* nothing.
C37_RunLeavesCachedProfile == [][C37_Step]_vars

\* The second request got the profile from the cache after the first had
\* run it to its end on inputs of its own.
C37_Witness ==
    /\ runs[1].pc = "returned"
    /\ runs[1].doc.inputs # GoodProfile.inputs
    /\ loads[2].pc = "returned"
    /\ loads[2].fetches = 0
    /\ loads[2].result.doc = GoodProfile
    /\ reqs[2].pc = "running"

=============================================================================
